---------------------------- MODULE Spec2Model ----------------------------
(***************************************************************************)
(* CyberCheck: the student check-in (src/src/pages/student/Checkin.tsx),   *)
(* the GPS plausibility classifier and location acquisition               *)
(* (src/src/lib/geolocation.ts) and the admin's lesson switch              *)
(* (src/src/pages/admin/AttendanceControl.tsx), as one state machine.      *)
(*                                                                         *)
(* Every `await` of the source is a step boundary: an action is either the *)
(* synchronous prefix of a handler up to its first await, or the delivery  *)
(* of one platform / store result together with the continuation that     *)
(* runs on it up to the next await.                                        *)
(*                                                                         *)
(* Units: latitude and longitude are integers in units of 1e-7 degree,    *)
(* accuracy is in centimetres, distances are in millimetres, the clock is  *)
(* in hours.                                                               *)
(***************************************************************************)
EXTENDS Integers, Sequences, FiniteSets, TLC

\* ------------------------------------------------------------------ bounds
MaxTabs == 2          \* browser tabs (or devices) of the signed-in user
MaxAttempts == 2      \* handleCheckin calls that pass the entry guard
MaxSoloAttempts == 1  \* the same, where every device and platform result is explored
MaxTime == 1          \* last value of the clock
MaxToggles == 2       \* toggleLessonStatus calls of the admin
MaxLogins == 2        \* logins the auth function answers with a token
MaxServerTime == 2    \* last value of the auth function's clock
MaxAdminTime == 3     \* last value of the admin function's clock
MaxCalls == 2         \* calls of the client library in flight
MaxClientTime == 2    \* last value of the browser's clock

Tabs == 1..MaxTabs
Calls == 1..MaxCalls
NULL == "null"

\* ------------------------------------------------------- platform values
\* navigator.userAgent.toLowerCase(), as the set of the keywords it contains
PhoneUA == {"android", "mobile", "chrome", "safari"}
EmulatorUA == {"android", "sdk", "mobile", "chrome", "safari"}
DesktopUA == {"windows", "chrome", "safari"}
UserAgents == {PhoneUA, EmulatorUA, DesktopUA}

includes(userAgent, keyword) == keyword \in userAgent

\* a device: its user agent and whether navigator.geolocation exists
Devices ==
  [userAgent : UserAgents, geolocation : {TRUE}]
    \cup { [userAgent |-> PhoneUA, geolocation |-> FALSE] }

\* the positions the platform can deliver (LocationData, timestamp not read
\* by this revision of the code)
Readings ==
  { [latitude |-> 7195,  longitude |-> 0, accuracy |-> 500],   \* 80 m north, 5 m accuracy
    [latitude |-> 7195,  longitude |-> 1, accuracy |-> 500],   \* same, longitude 1e-7 deg off
    [latitude |-> 26980, longitude |-> 0, accuracy |-> 500],   \* 300 m north
    [latitude |-> 7195,  longitude |-> 0, accuracy |-> 0],     \* accuracy exactly 0
    [latitude |-> 7195,  longitude |-> 0, accuracy |-> 5] }    \* accuracy 0.05 m

\* GeolocationPositionError.code
PERMISSION_DENIED == "PERMISSION_DENIED"
POSITION_UNAVAILABLE == "POSITION_UNAVAILABLE"
TIMEOUT == "TIMEOUT"
ErrorCodes == {PERMISSION_DENIED, POSITION_UNAVAILABLE, TIMEOUT}

\* the call sites of getCurrentLocation: geolocation.ts 258, 279, 280 and
\* Checkin.tsx 103
Slots == {"first", "r0", "r1", "own"}
DetectSlots == {"first", "r0", "r1"}

Roles == {"student", "teacher", "admin"}
Levels == {"minimal", "medium", "maximal"}

\* the reasons detectSuspiciousGPS pushes
R_EMULATOR == "Emulator/Simulator aniqlandi"
R_ZERO == "Mumkin bo'lmagan GPS aniqligi (0 metr)"
R_HIGH == "Mumkin bo'lmagan yuqori aniqlik"
R_IDENTICAL == "GPS ko'rsatkichlari sun'iy ravishda bir xil"
R_ERROR == "GPS tekshiruvida xatolik"

\* the messages handleCheckin shows
M_NOT_MOBILE == "Faqat mobil qurilmadan foydalaning!"
M_INVALID_PIN == "PIN kod noto'g'ri yoki muddati o'tgan"
M_SKIPPED == "GPS tekshiruvi o'tkazib yuborildi"
M_SYSTEM_ERROR == "Tizim xatosi yuz berdi"
M_NO_GEOLOCATION == "Geolocation qo'llab-quvvatlanmaydi"

VARIABLES
  \* the browser session: the device and the signed-in user (useAuth)
  device, user,
  \* getCurrentLocation: the platform requests in flight, per tab and call site
  req, calls,
  \* detectSuspiciousGPS: its frame and its returned value, per tab
  detect, verdict,
  \* handleCheckin: its frame and the component state, per tab
  pc, frame, isChecking, checkResult, attempts,
  \* the store
  lessons, attendance, activity_logs, now,
  \* the admin page
  adminLessons, toggling, fetching, toggles,
  \* calculateDistance: its last two calls, arguments and results
  distanceCalls,
  \* the auth function: its token map, the randomUUID() calls made, its clock,
  \* the login request in flight and the last response sent
  memoryTokens, tokensIssued, serverNow, loginCall, authResponse,
  \* history of the auth function: when each token was issued, and the
  \* tokens passed to logout or found expired
  issued, revoked,
  \* the admin function: its rate-limit Map, its clock, the request being
  \* handled, the last response sent, public.users and public.groups
  adminRateLimit, adminNow, adminCall, adminResponse, users, groups,
  \* history of the admin function: the requests checkRateLimit admitted,
  \* by address and time
  admitted,
  \* the client library: the URLs it tries, its calls of
  \* makeRequestWithFallback in flight, the session in memory and the clock
  FALLBACK_URLS, net, currentSession, clientNow,
  \* history of the client library: what getCurrentSession returned last,
  \* and whether validateSession has returned valid = false since the last
  \* successful login
  lastRead, invalidated

authVars == <<memoryTokens, tokensIssued, serverNow, loginCall, authResponse,
              issued, revoked>>
\* what no step of the check-in and admin pages changes
apiVars == <<adminRateLimit, adminNow, adminCall, adminResponse, users, groups,
             admitted>>
clientVars == <<FALLBACK_URLS, net, currentSession, clientNow, lastRead, invalidated>>
envVars == <<device, user, distanceCalls, authVars, apiVars, clientVars>>
gpsVars == <<req, calls, detect, verdict>>
tabVars == <<pc, frame, isChecking, checkResult, attempts>>
storeVars == <<lessons, attendance, activity_logs, now>>
adminVars == <<adminLessons, toggling, fetching, toggles>>
pageVars == <<gpsVars, tabVars, storeVars, adminVars>>
vars == <<envVars, gpsVars, tabVars, storeVars, adminVars>>

\* --------------------------------------------------------------- helpers
Push(seq, x) == Append(seq, x)

Abs(x) == IF x < 0 THEN -x ELSE x

\* isMobileDevice(): some mobile keyword occurs in the user agent
isMobileDevice ==
  \E keyword \in {"android", "iphone", "ipad", "ipod", "mobile", "webos"} :
      includes(device.userAgent, keyword)

\* --------------------------------------------------- getCurrentLocation
\* tryHighAccuracy(): the first platform request of a call
tryHighAccuracy(reqT, s) == [reqT EXCEPT ![s] = "high"]

\* tryLowAccuracy(): the fallback request
tryLowAccuracy(reqT, s) == [reqT EXCEPT ![s] = "low"]

\* handleGeolocationError: the message of the Error the promise rejects with
E_PERMISSION == "Joylashuv ruxsati berilmadi. Iltimos, brauzer sozlamalaridan GPS ruxsatini bering."
E_UNAVAILABLE == "Joylashuvni aniqlab bo'lmadi. Internet aloqasini tekshiring."
E_TIMEOUT == "Joylashuvni aniqlash vaqti tugadi. Qayta urinib ko'ring."

handleGeolocationError(code) ==
  CASE code = PERMISSION_DENIED -> E_PERMISSION
    [] code = POSITION_UNAVAILABLE -> E_UNAVAILABLE
    [] code = TIMEOUT -> E_TIMEOUT

\* the requests of a tab that are in flight at the platform
InFlight(t) == {s \in Slots : req[t][s] # "idle"}

IdleReq == [s \in Slots |-> "idle"]

\* --------------------------------------------------- detectSuspiciousGPS
\* "no reading yet": an accuracy no platform delivers
NoReading == [latitude |-> 0, longitude |-> 0, accuracy |-> -1]

\* the fields of a reading the code goes on to read: the accuracy of the
\* first reading (lines 263, 270), the coordinates of the other ones
\* (lines 284-285; Checkin.tsx 128-131, 168-169)
Accuracy(r) == [latitude |-> 0, longitude |-> 0, accuracy |-> r.accuracy]
Coordinates(r) == [latitude |-> r.latitude, longitude |-> r.longitude, accuracy |-> -2]

\* "not computed yet"
NoThresholds ==
  [accuracyThreshold |-> 0, maxAccuracy |-> 0, varianceThreshold |-> 0,
   timestampThreshold |-> 0]

IdleDetect ==
  [pc |-> "off", level |-> NULL, teacherRadius |-> 0, pinValiditySeconds |-> 0,
   userRole |-> NULL, reasons |-> <<>>, isSuspicious |-> FALSE,
   thresholds |-> NoThresholds, adjustedThresholds |-> NoThresholds,
   location |-> NoReading, readings |-> <<NoReading, NoReading>>, gate |-> -1]

NoVerdict == [returned |-> FALSE, isSuspicious |-> FALSE, reasons |-> <<>>]

\* an optional argument that was not supplied
Undefined == -1

\* getDetectionThresholds with the rows of 'minimal' and 'maximal' exchanged
getDetectionThresholds_Swapped(level) ==
  CASE level = "maximal" ->
         [accuracyThreshold |-> 100, maxAccuracy |-> 2000000,
          varianceThreshold |-> 10, timestampThreshold |-> 100]
    [] level = "minimal" ->
         [accuracyThreshold |-> 500, maxAccuracy |-> 1000000,
          varianceThreshold |-> 1000, timestampThreshold |-> 500]
    [] OTHER ->
         [accuracyThreshold |-> 300, maxAccuracy |-> 1500000,
          varianceThreshold |-> 100, timestampThreshold |-> 200]

\* getDetectionThresholds with a default branch that returns the row of
\* 'minimal'
getDetectionThresholds_DefaultMinimal(level) ==
  CASE level = "medium" ->
         [accuracyThreshold |-> 300, maxAccuracy |-> 1500000,
          varianceThreshold |-> 100, timestampThreshold |-> 200]
    [] level = "maximal" ->
         [accuracyThreshold |-> 500, maxAccuracy |-> 1000000,
          varianceThreshold |-> 1000, timestampThreshold |-> 500]
    [] OTHER ->
         [accuracyThreshold |-> 100, maxAccuracy |-> 2000000,
          varianceThreshold |-> 10, timestampThreshold |-> 100]

\* lines 27-53: getDetectionThresholds.  accuracyThreshold and maxAccuracy in
\* centimetres, varianceThreshold in 1e-7 degree, timestampThreshold in ms
RECURSIVE getDetectionThresholds(_)
getDetectionThresholds(level) ==
  CASE level = "minimal" ->
         [accuracyThreshold |-> 100, maxAccuracy |-> 2000000,
          varianceThreshold |-> 10, timestampThreshold |-> 100]
    [] level = "medium" ->
         [accuracyThreshold |-> 300, maxAccuracy |-> 1500000,
          varianceThreshold |-> 100, timestampThreshold |-> 200]
    [] level = "maximal" ->
         [accuracyThreshold |-> 500, maxAccuracy |-> 1000000,
          varianceThreshold |-> 1000, timestampThreshold |-> 500]
    \* default: return getDetectionThresholds('medium')
    [] OTHER -> getDetectionThresholds("medium")

\* the adjustment of lines 232-243 with `teacherRadius >= 200`
adjustedThresholds_Inclusive(level, teacherRadius, pinValiditySeconds) ==
  LET thresholds == getDetectionThresholds(level)
  IN [thresholds EXCEPT
        !.varianceThreshold =
            IF teacherRadius # Undefined /\ teacherRadius # 0 /\ teacherRadius >= 200
            THEN thresholds.varianceThreshold * 10
            ELSE thresholds.varianceThreshold,
        !.timestampThreshold =
            IF /\ pinValiditySeconds # Undefined /\ pinValiditySeconds # 0
               /\ pinValiditySeconds < 60
            THEN thresholds.timestampThreshold \div 2
            ELSE thresholds.timestampThreshold]

\* lines 232-243: the thresholds adjusted to the teacher's settings.  The
\* conditions are `teacherRadius && teacherRadius > 200` and
\* `pinValiditySeconds && pinValiditySeconds < 60`: undefined and 0 are falsy
adjustedThresholds(level, teacherRadius, pinValiditySeconds) ==
  LET thresholds == getDetectionThresholds(level)
  IN [thresholds EXCEPT
        !.varianceThreshold =
            IF teacherRadius # Undefined /\ teacherRadius # 0 /\ teacherRadius > 200
            THEN thresholds.varianceThreshold * 10
            ELSE thresholds.varianceThreshold,
        !.timestampThreshold =
            IF /\ pinValiditySeconds # Undefined /\ pinValiditySeconds # 0
               /\ pinValiditySeconds < 60
            THEN thresholds.timestampThreshold \div 2
            ELSE thresholds.timestampThreshold]

\* lines 246-255: the emulator check on navigator.userAgent
EmulatorCheck(d) ==
  IF \/ includes(device.userAgent, "sdk")
     \/ includes(device.userAgent, "emulator")
     \/ includes(device.userAgent, "simulator")
  THEN [d EXCEPT !.isSuspicious = TRUE, !.reasons = Push(@, R_EMULATOR)]
  ELSE d

\* lines 262-267: accuracy === 0
ZeroAccuracyCheck(d) ==
  IF d.location.accuracy = 0
  THEN [d EXCEPT !.isSuspicious = TRUE, !.reasons = Push(@, R_ZERO)]
  ELSE d

\* the check of lines 269-274 against the level's accuracyThreshold
HighAccuracyCheck_Threshold(d) ==
  IF d.location.accuracy < d.adjustedThresholds.accuracyThreshold
  THEN [d EXCEPT !.isSuspicious = TRUE, !.reasons = Push(@, R_HIGH)]
  ELSE d

\* lines 269-274: accuracy < 0.1 (metres; 10 cm)
HighAccuracyCheck(d) ==
  IF d.location.accuracy < 10
  THEN [d EXCEPT !.isSuspicious = TRUE, !.reasons = Push(@, R_HIGH)]
  ELSE d

\* lines 283-291: both coordinate differences below 0.0000001 degree
IdenticalCheck(d) ==
  LET latDiff == Abs(d.readings[1].latitude - d.readings[2].latitude)
      lonDiff == Abs(d.readings[1].longitude - d.readings[2].longitude)
  IN IF latDiff < 1 /\ lonDiff < 1
     THEN [d EXCEPT !.isSuspicious = TRUE, !.reasons = Push(@, R_IDENTICAL)]
     ELSE d

\* line 300-302: the catch block
Catch(d) == [d EXCEPT !.reasons = Push(@, R_ERROR)]

\* the gate asking for 4 reasons
CorroborationGate_Four(d) ==
  IF Len(d.reasons) < 4
  THEN Catch([d EXCEPT !.isSuspicious = FALSE, !.gate = Len(d.reasons)])
  ELSE [d EXCEPT !.gate = Len(d.reasons)]

\* lines 293-298: with fewer than 2 reasons isSuspicious is cleared and then
\* `reasons = []` assigns to the const of line 221: a TypeError, thrown into
\* the catch block.  (gate keeps reasons.length as line 294 read it.)
CorroborationGate(d) ==
  IF Len(d.reasons) < 2
  THEN Catch([d EXCEPT !.isSuspicious = FALSE, !.gate = Len(d.reasons)])
  ELSE [d EXCEPT !.gate = Len(d.reasons)]


\* detectSuspiciousGPS with the exemption of line 225 covering teachers only
detectSuspiciousGPS_TeacherOnly(level, teacherRadius, pinValiditySeconds, userRole) ==
  LET d0 == [IdleDetect EXCEPT !.level = level, !.teacherRadius = teacherRadius,
                               !.pinValiditySeconds = pinValiditySeconds,
                               !.userRole = userRole]
      d1 == [d0 EXCEPT !.thresholds = getDetectionThresholds(level),
                       !.adjustedThresholds =
                          adjustedThresholds(level, teacherRadius, pinValiditySeconds)]
  IN IF userRole = "teacher"
     THEN [d0 EXCEPT !.pc = "returned"]
     ELSE IF device.geolocation
          THEN [EmulatorCheck(d1) EXCEPT !.pc = "first"]
          ELSE [Catch(EmulatorCheck(d1)) EXCEPT !.pc = "returned"]

\* lines 215-258: the synchronous prefix of detectSuspiciousGPS, up to the
\* first await or the early return; the frame it leaves
detectSuspiciousGPS(level, teacherRadius, pinValiditySeconds, userRole) ==
  LET d0 == [IdleDetect EXCEPT !.level = level, !.teacherRadius = teacherRadius,
                               !.pinValiditySeconds = pinValiditySeconds,
                               !.userRole = userRole]
      \* lines 230-243
      d1 == [d0 EXCEPT !.thresholds = getDetectionThresholds(level),
                       !.adjustedThresholds =
                          adjustedThresholds(level, teacherRadius, pinValiditySeconds)]
  IN IF userRole = "teacher" \/ userRole = "admin"
     THEN [d0 EXCEPT !.pc = "returned"]
     ELSE IF device.geolocation
          THEN [EmulatorCheck(d1) EXCEPT !.pc = "first"]
          \* getCurrentLocation rejects at once (lines 133-137)
          ELSE [Catch(EmulatorCheck(d1)) EXCEPT !.pc = "returned"]

\* line 304: the value returned
Returned(d) == [returned |-> TRUE, isSuspicious |-> d.isSuspicious, reasons |-> d.reasons]

\* ------------------------------------------------------ calculateDistance
RECURSIVE SqrtSearch(_, _, _)
SqrtSearch(n, lo, hi) ==
  IF lo >= hi THEN lo
  ELSE LET mid == (lo + hi + 1) \div 2
       IN IF mid * mid <= n THEN SqrtSearch(n, mid, hi) ELSE SqrtSearch(n, lo, mid - 1)

\* floor of the square root, for 0 <= n < 2^31
Sqrt(n) == SqrtSearch(n, 0, 46339)

\* millimetres per 1e-7 degree of arc on a sphere of radius 6371e3 m, times 1000
MM_PER_UNIT_K == 11119

\* calculateDistance on the model's grid (points within a few hundred metres
\* of the equator and of each other): there cos(phi) = 1 and
\* atan2(sqrt(a), sqrt(1 - a)) = sqrt(a) to 1e-9 relative, and the Haversine
\* formula gives R * sqrt(dphi^2 + dlambda^2).  Result in millimetres.
calculateDistance(lat1, lon1, lat2, lon2) ==
  LET dphi == lat2 - lat1
      dlambda == lon2 - lon1
  IN (Sqrt(dphi * dphi + dlambda * dlambda) * MM_PER_UNIT_K) \div 1000

\* Math.round of a distance, in metres
Round(mm) == (mm + 500) \div 1000

\* geolocation.ts 323-335: what checkLocationWithinRadius computes from the
\* location it acquired (radiusMeters in metres, distance in millimetres)
checkLocationWithinRadius(location, targetLat, targetLon, radiusMeters) ==
  LET distance == calculateDistance(location.latitude, location.longitude,
                                    targetLat, targetLon)
  IN [isWithinRadius |-> distance <= radiusMeters * 1000, distance |-> distance]

\* --------------------------- calculateDistance over the whole domain
\* Coordinates in whole degrees.  Real numbers are fixed-point with four
\* decimal digits (ONE stands for 1.0); Math.sin and Math.cos return the
\* nearest representable value, every product is rounded to the nearest
\* representable value, as in floating-point arithmetic with a shorter
\* significand.
ONE == 10000

\* round(ONE * sin(d degrees)) for d = 0..90
SinTable ==
  << 0, 175, 349, 523, 698, 872, 1045, 1219, 1392, 1564,
     1736, 1908, 2079, 2250, 2419, 2588, 2756, 2924, 3090, 3256,
     3420, 3584, 3746, 3907, 4067, 4226, 4384, 4540, 4695, 4848,
     5000, 5150, 5299, 5446, 5592, 5736, 5878, 6018, 6157, 6293,
     6428, 6561, 6691, 6820, 6947, 7071, 7193, 7314, 7431, 7547,
     7660, 7771, 7880, 7986, 8090, 8192, 8290, 8387, 8480, 8572,
     8660, 8746, 8829, 8910, 8988, 9063, 9135, 9205, 9272, 9336,
     9397, 9455, 9511, 9563, 9613, 9659, 9703, 9744, 9781, 9816,
     9848, 9877, 9903, 9925, 9945, 9962, 9976, 9986, 9994, 9998,
     10000 >>

\* Math.sin of an angle of -180..180 whole degrees
RECURSIVE MathSin(_)
MathSin(x) ==
  IF x < 0 THEN 0 - MathSin(0 - x)
  ELSE IF x > 90 THEN MathSin(180 - x)
  ELSE SinTable[x + 1]

\* Math.cos of an angle of -90..90 whole degrees
MathCos(x) == MathSin(90 - Abs(x))

\* the rounded product of two numbers
Times(p, q) == (2 * p * q + ONE) \div (2 * ONE)

\* a number, or NaN
Num(x) == [nan |-> FALSE, value |-> x]
NaN == [nan |-> TRUE, value |-> 0]

\* Math.sqrt: NaN for a negative argument
MathSqrt(x) == IF x < 0 THEN NaN ELSE Num(Sqrt(x * ONE))

\* Math.atan2(y, x) for y, x >= 0, in whole degrees (rounded down): the
\* greatest theta of 0..90 with tan(theta) <= y / x, which is the number of
\* such theta above 0, the tangent being increasing.  NaN if an argument is
\* NaN.
MathAtan2(y, x) ==
  IF y.nan \/ x.nan THEN NaN
  ELSE Num(Cardinality({theta \in 1..90 :
                          MathSin(theta) * x.value <= MathCos(theta) * y.value}))

\* R * pi / 180 for R = 6371e3: metres per degree of arc
M_PER_DEGREE == 111195

\* lines 67-69: the value `a` of the Haversine formula; the half angles are
\* whole degrees for coordinates in even degrees
HaversineA_FirstLatitude(lat1, lon1, lat2, lon2) ==
  LET sinHalfDphi == MathSin((lat2 - lat1) \div 2)
      sinHalfDlambda == MathSin((lon2 - lon1) \div 2)
  IN Times(sinHalfDphi, sinHalfDphi)
       + Times(Times(Times(MathCos(lat1), MathCos(lat1)), sinHalfDlambda),
               sinHalfDlambda)

HaversineA(lat1, lon1, lat2, lon2) ==
  LET sinHalfDphi == MathSin((lat2 - lat1) \div 2)
      sinHalfDlambda == MathSin((lon2 - lon1) \div 2)
  IN Times(sinHalfDphi, sinHalfDphi)
       + Times(Times(Times(MathCos(lat1), MathCos(lat2)), sinHalfDlambda),
               sinHalfDlambda)

\* lines 56-74: calculateDistance for coordinates in even degrees; the
\* result in metres, or NaN
calculateDistance_Degrees(lat1, lon1, lat2, lon2) ==
  LET a == HaversineA(lat1, lon1, lat2, lon2)
      c == MathAtan2(MathSqrt(a), MathSqrt(ONE - a))
  IN IF c.nan THEN NaN ELSE Num(2 * c.value * M_PER_DEGREE)

\* one call of calculateDistance; the two most recent calls are kept
CalculateDistance(lat1, lon1, lat2, lon2) ==
  LET call == [lat1 |-> lat1, lon1 |-> lon1, lat2 |-> lat2, lon2 |-> lon2,
               a |-> HaversineA(lat1, lon1, lat2, lon2),
               result |-> calculateDistance_Degrees(lat1, lon1, lat2, lon2)]
  IN /\ distanceCalls' = IF distanceCalls = <<>> THEN <<call>>
                         ELSE <<distanceCalls[Len(distanceCalls)], call>>
     /\ UNCHANGED <<device, user, authVars, apiVars, clientVars, pageVars>>

\* ------------------------------------------------------------ the store
Lessons == {"L1", "L2"}
Pins == {"111111", "222222"}

\* the columns of a lesson that nothing in these pages writes
LessonConfig ==
  [L1 |-> [latitude |-> 0, longitude |-> 0, radius_meters |-> 120,
           fake_detection_level |-> "medium", allow_skip_gps |-> FALSE,
           pin_validity_seconds |-> 60],
   L2 |-> [latitude |-> 0, longitude |-> 0, radius_meters |-> 282,
           fake_detection_level |-> "maximal", allow_skip_gps |-> TRUE,
           pin_validity_seconds |-> 30]]

\* Date.now() + 60 * 60 * 1000, on the clock's scale
ONE_HOUR == 1

\* the rows of attendance for one (lesson, student) pair, by id
Rows(lesson_id, student_id) ==
  {i \in 1..Len(attendance) :
      attendance[i].lesson_id = lesson_id /\ attendance[i].student_id = student_id}

\* .maybeSingle(): the row when exactly one matches, null when none does,
\* and an error with null data when several do
maybeSingle(matches, none) ==
  IF Cardinality(matches) = 1 THEN CHOOSE m \in matches : TRUE ELSE none

\* the lesson query without its is_active filter
LessonQuery_AnyStatus(pinCode, callTime) ==
  {l \in Lessons : /\ lessons[l].pin_code = pinCode
                   /\ lessons[l].pin_expires_at >= callTime}

\* lines 62-68: the lesson query, evaluated by the store
LessonQuery(pinCode, callTime) ==
  {l \in Lessons : /\ lessons[l].pin_code = pinCode
                   /\ lessons[l].is_active = TRUE
                   /\ lessons[l].pin_expires_at >= callTime}

\* ---------------------------------------------------------- handleCheckin
NoResult == [success |-> FALSE, message |-> NULL, status |-> NULL]
NoCheck == [isSuspicious |-> FALSE, reasons |-> <<>>]

IdleFrame ==
  [pinCode |-> NULL, skipGPS |-> FALSE, callTime |-> 0, lesson |-> NULL,
   suspiciousCheck |-> NoCheck, location |-> NoReading, distance |-> 0,
   isWithinRadius |-> TRUE, status |-> NULL, suspiciousReason |-> NULL,
   existingRecord |-> 0, writeError |-> FALSE]

\* reasons.join(", ")
RECURSIVE join(_)
join(seq) ==
  IF Len(seq) = 0 THEN ""
  ELSE IF Len(seq) = 1 THEN seq[1]
  ELSE seq[1] \o ", " \o join(Tail(seq))

\* the catch of lines 104-120 showing its initial text for every error
LocationErrorMessage_Generic(message) == "GPS xatosi"

\* lines 105-114: the message shown for a rejected getCurrentLocation
H_PERMISSION == " [Chrome/Safari sozlamalarida: joylashuv ruxsati]"
H_INTERNET == " [Wi-Fi yoki mobil internet aloqasini tekshiring]"

LocationErrorMessage(message) ==
  IF message = E_PERMISSION THEN message \o H_PERMISSION       \* includes("ruxsat")
  ELSE IF message = E_UNAVAILABLE THEN message \o H_INTERNET   \* includes("Internet")
  ELSE message


\* the signed-in user of useAuth(), or none
NoUser == [id |-> NULL, role |-> NULL]
Users == {NoUser, [id |-> "s1", role |-> "student"]}

\* -------------------------------------------------- assignments, per tab
SetGps(t, reqT, callsT, d, v) ==
  /\ req' = [req EXCEPT ![t] = reqT]
  /\ calls' = [calls EXCEPT ![t] = callsT]
  /\ detect' = [detect EXCEPT ![t] = d]
  /\ verdict' = [verdict EXCEPT ![t] = v]

SetTab(t, pcT, f, checking, result) ==
  /\ pc' = [pc EXCEPT ![t] = pcT]
  /\ frame' = [frame EXCEPT ![t] = f]
  /\ isChecking' = [isChecking EXCEPT ![t] = checking]
  /\ checkResult' = [checkResult EXCEPT ![t] = result]

Finish_NoFinally(t, result) == SetTab(t, "idle", IdleFrame, isChecking[t], result)

\* setCheckResult(result); return; finally { setIsChecking(false) }
Finish(t, result) == SetTab(t, "idle", IdleFrame, FALSE, result)

Rejected(message) == [success |-> FALSE, message |-> message, status |-> NULL]

\* Checkin.tsx 94-120, from the return of detectSuspiciousGPS: the verdict is
\* stored and getCurrentLocation() is called; without navigator.geolocation
\* it rejects at once and the attempt ends with its message
AcquireOwn(t, f, check, reqT, callsT) ==
  IF device.geolocation
  THEN /\ SetGps(t, tryHighAccuracy(reqT, "own"), callsT + 1, IdleDetect, NoVerdict)
       /\ SetTab(t, "locate", [f EXCEPT !.suspiciousCheck = check], TRUE, NoResult)
  ELSE /\ SetGps(t, reqT, callsT + 1, IdleDetect, NoVerdict)
       /\ Finish(t, Rejected(LocationErrorMessage(M_NO_GEOLOCATION)))

\* geolocation.ts 304: detectSuspiciousGPS returns, to handleCheckin when it
\* awaits it (Checkin.tsx 94) and to a direct caller otherwise
DetectReturn(t, d, reqT, callsT) ==
  IF pc[t] = "detect"
  THEN /\ AcquireOwn(t, frame[t], [isSuspicious |-> d.isSuspicious, reasons |-> d.reasons],
                     reqT, callsT)
       /\ UNCHANGED <<attempts, envVars, storeVars, adminVars>>
  ELSE /\ SetGps(t, reqT, callsT, [d EXCEPT !.pc = "returned"], Returned(d))
       /\ UNCHANGED <<tabVars, envVars, storeVars, adminVars>>

\* ------------------------------------------------------------- actions
\* a direct call of detectSuspiciousGPS (as checkLocationWithinRadius makes)
CallDetect(t, level, teacherRadius, pinValiditySeconds, userRole) ==
  /\ pc[t] = "idle"
  /\ detect[t].pc \in {"off", "returned"}
  /\ LET d == detectSuspiciousGPS(level, teacherRadius, pinValiditySeconds, userRole)
     IN IF d.pc = "first"
        THEN SetGps(t, tryHighAccuracy(req[t], "first"), 1, d, NoVerdict)
        ELSE SetGps(t, req[t],
                    IF userRole = "teacher" \/ userRole = "admin" THEN 0 ELSE 1,
                    d, Returned(d))
  /\ UNCHANGED <<tabVars, envVars, storeVars, adminVars>>

\* geolocation.ts 258-281: the first reading arrives; the accuracy checks
\* run and Promise.all starts the two further acquisitions together
FirstReading(t, r) ==
  LET d == HighAccuracyCheck(ZeroAccuracyCheck([detect[t] EXCEPT !.location = Accuracy(r)]))
      reqT == tryHighAccuracy(tryHighAccuracy([req[t] EXCEPT !["first"] = "idle"], "r0"), "r1")
  IN /\ SetGps(t, reqT, calls[t] + 2, [d EXCEPT !.pc = "all"], NoVerdict)
     /\ UNCHANGED <<tabVars, envVars, storeVars, adminVars>>

\* geolocation.ts 278-298: one reading of Promise.all arrives; with both in,
\* the coordinates are compared and the corroboration gate runs
AllReading(t, s, r) ==
  LET i == IF s = "r0" THEN 1 ELSE 2
      other == IF s = "r0" THEN "r1" ELSE "r0"
      d == [detect[t] EXCEPT !.readings[i] = Coordinates(r)]
      reqT == [req[t] EXCEPT ![s] = "idle"]
  IN IF req[t][other] = "idle"
     THEN DetectReturn(t, CorroborationGate(IdenticalCheck(d)), reqT, calls[t])
     ELSE /\ SetGps(t, reqT, calls[t], d, NoVerdict)
          /\ UNCHANGED <<tabVars, envVars, storeVars, adminVars>>

\* OwnReading with `distance < radiusMeters` on line 134
OwnReading_Exclusive(t, r) ==
  LET cfg == LessonConfig[frame[t].lesson]
      radiusMeters == IF cfg.radius_meters # 0 THEN cfg.radius_meters ELSE 120
      distance == calculateDistance(r.latitude, r.longitude, cfg.latitude, cfg.longitude)
  IN /\ SetGps(t, [req[t] EXCEPT !["own"] = "idle"], calls[t], detect[t], verdict[t])
     /\ SetTab(t, "fingerprint",
               [frame[t] EXCEPT !.location = Coordinates(r), !.distance = distance,
                                !.isWithinRadius = (distance < radiusMeters * 1000)],
               TRUE, NoResult)
     /\ UNCHANGED <<attempts, envVars, storeVars, adminVars>>

\* Checkin.tsx 103, 123-137: the orchestrator's own reading arrives; the
\* distance is computed and getFingerprint() is awaited
OwnReading(t, r) ==
  LET cfg == LessonConfig[frame[t].lesson]
      radiusMeters == IF cfg.radius_meters # 0 THEN cfg.radius_meters ELSE 120
      distance == calculateDistance(r.latitude, r.longitude, cfg.latitude, cfg.longitude)
  IN /\ SetGps(t, [req[t] EXCEPT !["own"] = "idle"], calls[t], detect[t], verdict[t])
     /\ SetTab(t, "fingerprint",
               [frame[t] EXCEPT !.location = Coordinates(r), !.distance = distance,
                                !.isWithinRadius = (distance <= radiusMeters * 1000)],
               TRUE, NoResult)
     /\ UNCHANGED <<attempts, envVars, storeVars, adminVars>>

\* the success callback of navigator.geolocation.getCurrentPosition, of the
\* high- or the low-accuracy request: the promise resolves (lines 145-153,
\* 174-181) and the awaiting code continues
PositionSuccess(t, s, r) ==
  /\ req[t][s] # "idle"
  /\ CASE s = "first" -> FirstReading(t, r)
       [] s \in {"r0", "r1"} -> AllReading(t, s, r)
       [] s = "own" -> OwnReading(t, r)

\* the promise of call site s rejects with handleGeolocationError's message
Reject(t, s, message) ==
  LET reqT == [req[t] EXCEPT ![s] = "idle"]
  IN CASE s = "first" -> DetectReturn(t, Catch(detect[t]), reqT, calls[t])
       [] s \in {"r0", "r1"} ->
            \* Promise.all rejects with the first rejection.  The other
            \* request may still be in flight at the platform: nobody awaits
            \* its promise any more, whatever it delivers is dropped, and req
            \* stops tracking it.
            LET other == IF s = "r0" THEN "r1" ELSE "r0"
            IN DetectReturn(t, Catch(detect[t]), [reqT EXCEPT ![other] = "idle"], calls[t])
       [] s = "own" ->
            /\ SetGps(t, reqT, calls[t], detect[t], verdict[t])
            /\ Finish(t, Rejected(LocationErrorMessage(message)))
            /\ UNCHANGED <<attempts, envVars, storeVars, adminVars>>

\* the error callback falling back to low accuracy on every error of the
\* high-accuracy request
PositionError_AnyError(t, s, code) ==
  /\ req[t][s] # "idle"
  /\ IF req[t][s] = "high"
     THEN /\ req' = [req EXCEPT ![t] = tryLowAccuracy(req[t], s)]
          /\ UNCHANGED <<calls, detect, verdict, tabVars, envVars, storeVars, adminVars>>
     ELSE Reject(t, s, handleGeolocationError(code))

\* the error callback: a TIMEOUT of the high-accuracy request starts the
\* low-accuracy one (lines 154-163), every other error rejects (182-184)
PositionError(t, s, code) ==
  /\ req[t][s] # "idle"
  /\ IF req[t][s] = "high" /\ code = TIMEOUT
     THEN /\ req' = [req EXCEPT ![t] = tryLowAccuracy(req[t], s)]
          /\ UNCHANGED <<calls, detect, verdict, tabVars, envVars, storeVars, adminVars>>
     ELSE Reject(t, s, handleGeolocationError(code))

\* Checkin.tsx 46-68: the entry guard, the mobile check and the lesson query
\* being sent.  (The page shows the PIN input only while checkResult is null;
\* the "Qayta urinish" button that clears it is folded into the call, which
\* clears checkResult itself.)
HandleCheckin(t, pinCode, skipGPS) ==
  /\ pc[t] = "idle"
  /\ IF user = NoUser \/ Len(pinCode) # 6
     THEN UNCHANGED vars
     ELSE /\ attempts < MaxAttempts
          /\ attempts' = attempts + 1
          /\ IF ~isMobileDevice
             THEN Finish(t, Rejected(M_NOT_MOBILE))
             ELSE SetTab(t, "lookup",
                         [IdleFrame EXCEPT !.pinCode = pinCode, !.skipGPS = skipGPS,
                                           !.callTime = now],
                         TRUE, NoResult)
          /\ calls' = [calls EXCEPT ![t] = 0]
          /\ UNCHANGED <<req, detect, verdict, envVars, storeVars, adminVars>>

\* Checkin.tsx 62-99: the lesson query returns; an unknown PIN ends the
\* attempt, skipGPS takes the skip branch, otherwise detectSuspiciousGPS is
\* called
LookupDone(t, outcome) ==
  /\ pc[t] = "lookup"
  /\ LET f == frame[t]
         lesson == IF outcome = "ok"
                   THEN maybeSingle(LessonQuery(f.pinCode, f.callTime), NULL)
                   ELSE NULL
     IN IF lesson = NULL
        THEN /\ Finish(t, Rejected(M_INVALID_PIN))
             /\ UNCHANGED gpsVars
        ELSE LET cfg == LessonConfig[lesson]
                 f1 == [f EXCEPT !.lesson = lesson]
             IN IF f.skipGPS
                THEN /\ SetTab(t, "fingerprint",
                               [f1 EXCEPT !.location = Coordinates([latitude |-> 0,
                                                        longitude |-> 0, accuracy |-> 999900]),
                                          !.suspiciousCheck = [isSuspicious |-> FALSE,
                                                               reasons |-> <<M_SKIPPED>>]],
                               TRUE, NoResult)
                     /\ UNCHANGED gpsVars
                ELSE LET d == detectSuspiciousGPS(
                                 IF cfg.fake_detection_level # NULL
                                 THEN cfg.fake_detection_level ELSE "medium",
                                 cfg.radius_meters, cfg.pin_validity_seconds, user.role)
                     IN IF d.pc = "first"
                        THEN /\ SetGps(t, tryHighAccuracy(req[t], "first"), 1, d, NoVerdict)
                             /\ SetTab(t, "detect", f1, TRUE, NoResult)
                        ELSE AcquireOwn(t, f1,
                                        [isSuspicious |-> d.isSuspicious, reasons |-> d.reasons],
                                        req[t],
                                        IF user.role = "student" THEN 1 ELSE 0)
  /\ UNCHANGED <<attempts, envVars, storeVars, adminVars>>

\* the status with the geofence tested before the classifier's verdict
Decide_GeofenceFirst(f) ==
  LET radiusMeters == IF LessonConfig[f.lesson].radius_meters # 0
                      THEN LessonConfig[f.lesson].radius_meters ELSE 120
  IN IF ~f.skipGPS /\ ~f.isWithinRadius
     THEN [f EXCEPT !.status = "suspicious",
                    !.suspiciousReason = "Darsdan " \o ToString(Round(f.distance))
                        \o "m uzoqda (ruxsat: " \o ToString(radiusMeters) \o "m)"]
     ELSE IF ~f.skipGPS /\ f.suspiciousCheck.isSuspicious
     THEN [f EXCEPT !.status = "suspicious",
                    !.suspiciousReason = join(f.suspiciousCheck.reasons)]
     ELSE IF f.skipGPS
     THEN [f EXCEPT !.status = "present", !.suspiciousReason = M_SKIPPED]
     ELSE [f EXCEPT !.status = "present", !.suspiciousReason = NULL]

\* the status decided from the distance alone, without the branch of lines
\* 143-145 for the classifier's verdict
Decide_DistanceOnly(f) ==
  LET radiusMeters == IF LessonConfig[f.lesson].radius_meters # 0
                      THEN LessonConfig[f.lesson].radius_meters ELSE 120
  IN IF ~f.skipGPS /\ ~f.isWithinRadius
     THEN [f EXCEPT !.status = "suspicious",
                    !.suspiciousReason = "Darsdan " \o ToString(Round(f.distance))
                        \o "m uzoqda (ruxsat: " \o ToString(radiusMeters) \o "m)"]
     ELSE IF f.skipGPS
     THEN [f EXCEPT !.status = "present", !.suspiciousReason = M_SKIPPED]
     ELSE [f EXCEPT !.status = "present", !.suspiciousReason = NULL]

\* the status without the branch of lines 149-152 for a skipped check
Decide_SkipUnmarked(f) ==
  LET radiusMeters == IF LessonConfig[f.lesson].radius_meters # 0
                      THEN LessonConfig[f.lesson].radius_meters ELSE 120
  IN IF ~f.skipGPS /\ f.suspiciousCheck.isSuspicious
     THEN [f EXCEPT !.status = "suspicious",
                    !.suspiciousReason = join(f.suspiciousCheck.reasons)]
     ELSE IF ~f.skipGPS /\ ~f.isWithinRadius
     THEN [f EXCEPT !.status = "suspicious",
                    !.suspiciousReason = "Darsdan " \o ToString(Round(f.distance))
                        \o "m uzoqda (ruxsat: " \o ToString(radiusMeters) \o "m)"]
     ELSE [f EXCEPT !.status = "present", !.suspiciousReason = NULL]

\* Checkin.tsx 139-152: the status and its reason
Decide(f) ==
  LET radiusMeters == IF LessonConfig[f.lesson].radius_meters # 0
                      THEN LessonConfig[f.lesson].radius_meters ELSE 120
  IN IF ~f.skipGPS /\ f.suspiciousCheck.isSuspicious
     THEN [f EXCEPT !.status = "suspicious",
                    !.suspiciousReason = join(f.suspiciousCheck.reasons)]
     ELSE IF ~f.skipGPS /\ ~f.isWithinRadius
     THEN [f EXCEPT !.status = "suspicious",
                    !.suspiciousReason = "Darsdan " \o ToString(Round(f.distance))
                        \o "m uzoqda (ruxsat: " \o ToString(radiusMeters) \o "m)"]
     ELSE IF f.skipGPS
     THEN [f EXCEPT !.status = "present", !.suspiciousReason = M_SKIPPED]
     ELSE [f EXCEPT !.status = "present", !.suspiciousReason = NULL]

\* Checkin.tsx 137-160: getFingerprint() settles; the status is decided and
\* the existing record is queried.  A rejection lands in the catch of 222.
FingerprintDone(t, outcome) ==
  /\ pc[t] = "fingerprint"
  /\ IF outcome = "ok"
     THEN SetTab(t, "select", Decide(frame[t]), TRUE, NoResult)
     ELSE Finish(t, Rejected(M_SYSTEM_ERROR))
  /\ UNCHANGED <<attempts, gpsVars, envVars, storeVars, adminVars>>

\* the query for the existing record inserting a row of its own
SelectDone_EarlyInsert(t, outcome) ==
  /\ pc[t] = "select"
  /\ LET existingRecord == IF outcome = "ok"
                           THEN maybeSingle(Rows(frame[t].lesson, user.id), 0)
                           ELSE 0
     IN SetTab(t, "write", [frame[t] EXCEPT !.existingRecord = existingRecord],
               TRUE, NoResult)
  /\ attendance' = Append(attendance, [lesson_id |-> frame[t].lesson, student_id |-> user.id,
                     status |-> "pending", latitude |-> 0, longitude |-> 0,
                     distance_meters |-> 0, is_fake_gps |-> FALSE,
                     suspicious_reason |-> NULL])
  /\ UNCHANGED <<attempts, gpsVars, envVars, lessons, activity_logs, now, adminVars>>

\* Checkin.tsx 155-190: the query for the existing record returns (its error
\* is not read) and the update or the insert is sent
SelectDone(t, outcome) ==
  /\ pc[t] = "select"
  /\ LET existingRecord == IF outcome = "ok"
                           THEN maybeSingle(Rows(frame[t].lesson, user.id), 0)
                           ELSE 0
     IN SetTab(t, "write", [frame[t] EXCEPT !.existingRecord = existingRecord],
               TRUE, NoResult)
  /\ UNCHANGED <<attempts, gpsVars, envVars, storeVars, adminVars>>

\* the columns handleCheckin writes (check_in_time, fingerprint and
\* user_agent left out)
Row(f) ==
  [lesson_id |-> f.lesson, student_id |-> user.id, status |-> f.status,
   latitude |-> f.location.latitude, longitude |-> f.location.longitude,
   distance_meters |-> f.distance, is_fake_gps |-> f.suspiciousCheck.isSuspicious,
   suspicious_reason |-> f.suspiciousReason]

\* the write inserting a row whether or not a record exists
WriteDone_AlwaysInsert(t, outcome) ==
  /\ pc[t] = "write"
  /\ LET f == frame[t]
     IN /\ attendance' = IF outcome # "ok" THEN attendance ELSE Append(attendance, Row(f))
        /\ SetTab(t, "log", [f EXCEPT !.writeError = (outcome # "ok")], TRUE, NoResult)
  /\ UNCHANGED <<attempts, gpsVars, envVars, lessons, activity_logs, now, adminVars>>

\* Checkin.tsx 162-205: the store applies the update or the insert, or fails;
\* the result of the await is not read, and the activity log insert is sent
WriteDone(t, outcome) ==
  /\ pc[t] = "write"
  /\ LET f == frame[t]
     IN /\ attendance' =
             IF outcome # "ok" THEN attendance
             ELSE IF f.existingRecord # 0
                  THEN [attendance EXCEPT ![f.existingRecord] = Row(f)]
                  ELSE Append(attendance, Row(f))
        /\ SetTab(t, "log", [f EXCEPT !.writeError = (outcome # "ok")], TRUE, NoResult)
  /\ UNCHANGED <<attempts, gpsVars, envVars, lessons, activity_logs, now, adminVars>>

\* the activity log insert throwing on failure, into the catch of line 222
LogDone_Throws(t, outcome) ==
  /\ pc[t] = "log"
  /\ LET f == frame[t]
         radiusMeters == IF LessonConfig[f.lesson].radius_meters # 0
                         THEN LessonConfig[f.lesson].radius_meters ELSE 120
     IN IF outcome # "ok"
        THEN /\ activity_logs' = activity_logs
             /\ Finish(t, Rejected(M_SYSTEM_ERROR))
        ELSE /\ activity_logs' =
                  Append(activity_logs,
                         [user_id |-> user.id, action |-> "checkin", lesson_id |-> f.lesson,
                          distance |-> f.distance, status |-> f.status,
                          radius |-> radiusMeters,
                          is_fake_gps |-> f.suspiciousCheck.isSuspicious])
             /\ IF f.status = "present"
                THEN Finish(t, [success |-> TRUE,
                                message |-> "Davomat muvaffaqiyatli qayd etildi! ("
                                              \o ToString(Round(f.distance)) \o "m)",
                                status |-> "present"])
                ELSE Finish(t, [success |-> FALSE,
                                message |-> IF f.suspiciousReason # NULL /\ f.suspiciousReason # ""
                                            THEN f.suspiciousReason
                                            ELSE "Shubhali holat aniqlandi",
                                status |-> "suspicious"])
  /\ UNCHANGED <<attempts, gpsVars, envVars, lessons, attendance, now, adminVars>>

\* Checkin.tsx 194-229: the activity log insert returns; the result is shown
LogDone(t, outcome) ==
  /\ pc[t] = "log"
  /\ LET f == frame[t]
         radiusMeters == IF LessonConfig[f.lesson].radius_meters # 0
                         THEN LessonConfig[f.lesson].radius_meters ELSE 120
     IN /\ activity_logs' =
             IF outcome # "ok" THEN activity_logs
             ELSE Append(activity_logs,
                         [user_id |-> user.id, action |-> "checkin", lesson_id |-> f.lesson,
                          distance |-> f.distance, status |-> f.status,
                          radius |-> radiusMeters,
                          is_fake_gps |-> f.suspiciousCheck.isSuspicious])
        /\ IF f.status = "present"
           THEN Finish(t, [success |-> TRUE,
                           message |-> "Davomat muvaffaqiyatli qayd etildi! ("
                                         \o ToString(Round(f.distance)) \o "m)",
                           status |-> "present"])
           ELSE Finish(t, [success |-> FALSE,
                           message |-> IF f.suspiciousReason # NULL /\ f.suspiciousReason # ""
                                       THEN f.suspiciousReason
                                       ELSE "Shubhali holat aniqlandi",
                           status |-> "suspicious"])
  /\ UNCHANGED <<attempts, gpsVars, envVars, lessons, attendance, now, adminVars>>

\* ------------------------------------------------------- the admin page
NoToggle == [lessonId |-> NULL, currentStatus |-> FALSE, clickTime |-> 0]

\* AttendanceControl.tsx 115-128, 296: the click on a lesson of the active
\* list; the update is sent with the status the list shows negated
ToggleLessonStatus(l) ==
  /\ toggling = NoToggle
  /\ toggles < MaxToggles
  /\ adminLessons[l].listed
  /\ toggling' = [lessonId |-> l, currentStatus |-> adminLessons[l].is_active,
                  clickTime |-> now]
  /\ toggles' = toggles + 1
  /\ UNCHANGED <<adminLessons, fetching, gpsVars, tabVars, envVars, storeVars>>

\* the update writing a new expiry time whichever way the lesson is switched
ToggleDone_AlwaysExpiry(outcome) ==
  /\ toggling # NoToggle
  /\ LET l == toggling.lessonId
         currentStatus == toggling.currentStatus
     IN IF outcome = "ok"
        THEN /\ lessons' = [lessons EXCEPT
                   ![l].is_active = ~currentStatus,
                   ![l].pin_expires_at = toggling.clickTime + ONE_HOUR]
             /\ adminLessons' = [adminLessons EXCEPT ![l].is_active = ~currentStatus]
             /\ fetching' = fetching + 1
        ELSE UNCHANGED <<lessons, adminLessons, fetching>>
  /\ toggling' = NoToggle
  /\ UNCHANGED <<toggles, gpsVars, tabVars, envVars, attendance, activity_logs, now>>

\* AttendanceControl.tsx 119-177: the store applies the update, or fails; on
\* success the local list follows and fetchLessons() is started
ToggleDone(outcome) ==
  /\ toggling # NoToggle
  /\ LET l == toggling.lessonId
         currentStatus == toggling.currentStatus
     IN IF outcome = "ok"
        THEN /\ lessons' = [lessons EXCEPT
                   ![l].is_active = ~currentStatus,
                   ![l].pin_expires_at = IF currentStatus THEN @
                                         ELSE toggling.clickTime + ONE_HOUR]
             /\ adminLessons' = [adminLessons EXCEPT ![l].is_active = ~currentStatus]
             /\ fetching' = fetching + 1
        ELSE UNCHANGED <<lessons, adminLessons, fetching>>
  /\ toggling' = NoToggle
  /\ UNCHANGED <<toggles, gpsVars, tabVars, envVars, attendance, activity_logs, now>>

\* AttendanceControl.tsx 57-76: the active-lessons query of a fetchLessons
\* returns and replaces the list
FetchLessonsDone ==
  /\ fetching > 0
  /\ fetching' = fetching - 1
  /\ adminLessons' = [l \in Lessons |->
                        [listed |-> lessons[l].is_active, is_active |-> lessons[l].is_active]]
  /\ UNCHANGED <<toggling, toggles, gpsVars, tabVars, envVars, storeVars>>

\* time passes
Tick ==
  /\ now < MaxTime
  /\ now' = now + 1
  /\ UNCHANGED <<envVars, gpsVars, tabVars, lessons, attendance, activity_logs, adminVars>>

\* ------------------------------------------- the auth edge function
\* (supabase/functions/admin/index.ts, lines 382-562)

\* 12 * 60 * 60 * 1000 ms on the scale of the server clock (12 hours a tick)
TWELVE_HOURS == 1

\* the two literals of line 485
BCRYPT_HASH == "$2b$12$LQv3c1yqBWVHxkd0LHAkCOYz6TtxMQJqhN8/LewdBPj6ukx.LrUpm"
DEMO_PASSWORD == "Husan0716"

\* public.users: the admin as the migration leaves it, a teacher with a
\* password of their own, and a deactivated account
AuthUsers ==
  [AdminHusan |-> [id |-> "u1", role |-> "admin", password_hash |-> BCRYPT_HASH,
                   is_active |-> TRUE],
   teacher1 |-> [id |-> "u2", role |-> "teacher", password_hash |-> "secret",
                 is_active |-> TRUE],
   former |-> [id |-> "u3", role |-> "teacher", password_hash |-> "old",
               is_active |-> FALSE]]

\* the request bodies: "" stands for a missing field
LoginInputs == {"AdminHusan", "teacher1", "former", "nobody", ""}
PasswordInputs == {"secret", "wrong", DEMO_PASSWORD, ""}

\* tokens are numbered in the order crypto.randomUUID() returns them;
\* NoToken is a missing token, ForgedToken a value no call returned
NoToken == 0
ForgedToken == -1

IdleLogin == [pc |-> "idle", login |-> "", password |-> ""]
NoResponse ==
  [action |-> "none", status |-> 0, login |-> "", password |-> "",
   token |-> NoToken, valid |-> FALSE, at |-> 0]

\* json(body, status): the response, with the request it answers
Respond(action, status, login, password, token, valid) ==
  authResponse' = [action |-> action, status |-> status, login |-> login,
                   password |-> password, token |-> token, valid |-> valid,
                   at |-> serverNow]

\* memoryTokens.get(token): the entries under that key
Get(token) == {e \in memoryTokens : e.token = token}

\* lines 464-477: a login request arrives; 400 without login or password,
\* otherwise the users query is sent
Login(login, password) ==
  /\ loginCall.pc = "idle"
  /\ tokensIssued < MaxLogins
  /\ IF login = "" \/ password = ""
     THEN /\ Respond("login", 400, login, password, NoToken, FALSE)
          /\ UNCHANGED loginCall
     ELSE /\ loginCall' = [pc |-> "lookup", login |-> login, password |-> password]
          /\ UNCHANGED authResponse
  /\ UNCHANGED <<memoryTokens, tokensIssued, serverNow, issued, revoked>>
  /\ UNCHANGED <<device, user, distanceCalls, apiVars, clientVars, pageVars>>

\* line 485: the condition under which the login is answered 401
PasswordRejected(row, password) ==
  /\ row.password_hash # password
  /\ row.password_hash # BCRYPT_HASH
  /\ password # DEMO_PASSWORD

\* lines 472-519: the users query returns; 401 for no active user of that
\* login (a failed query leaves data null) and for a rejected password,
\* otherwise a new token is stored and returned
LoginLookupDone(outcome) ==
  /\ loginCall.pc = "lookup"
  /\ LET login == loginCall.login
         password == loginCall.password
         found == outcome = "ok" /\ login \in DOMAIN AuthUsers /\ AuthUsers[login].is_active
         token == tokensIssued + 1
     IN IF ~found \/ PasswordRejected(AuthUsers[login], password)
        THEN /\ Respond("login", 401, login, password, NoToken, FALSE)
             /\ UNCHANGED <<memoryTokens, tokensIssued, issued>>
        ELSE /\ tokensIssued' = token
             /\ memoryTokens' = memoryTokens \cup
                  {[token |-> token, user_id |-> AuthUsers[login].id, login |-> login,
                    expires_at |-> serverNow + TWELVE_HOURS]}
             /\ issued' = issued \cup {[token |-> token, at |-> serverNow]}
             /\ Respond("login", 200, login, password, token, FALSE)
  /\ loginCall' = IdleLogin
  /\ UNCHANGED <<serverNow, revoked>>
  /\ UNCHANGED <<device, user, distanceCalls, apiVars, clientVars, pageVars>>

\* validate without the expiry test of line 532
Validate_NoExpiry(token) ==
  /\ IF token = NoToken \/ Get(token) = {}
     THEN /\ Respond("validate", 200, "", "", token, FALSE)
          /\ UNCHANGED <<memoryTokens, revoked>>
     ELSE /\ Respond("validate", 200, "", "", token, TRUE)
          /\ UNCHANGED <<memoryTokens, revoked>>
  /\ UNCHANGED <<tokensIssued, serverNow, loginCall, issued>>
  /\ UNCHANGED <<device, user, distanceCalls, apiVars, clientVars, pageVars>>

\* lines 522-548: a validate request; a missing, unknown or expired token is
\* answered valid: false, an expired one being deleted first
Validate(token) ==
  /\ IF token = NoToken
     THEN /\ Respond("validate", 200, "", "", token, FALSE)
          /\ UNCHANGED <<memoryTokens, revoked>>
     ELSE LET tokenData == Get(token)
              expired == \E e \in tokenData : e.expires_at < serverNow
          IN IF tokenData = {} \/ expired
             THEN /\ memoryTokens' = memoryTokens \ tokenData
                  /\ revoked' = IF expired THEN revoked \cup {token} ELSE revoked
                  /\ Respond("validate", 200, "", "", token, FALSE)
             ELSE /\ Respond("validate", 200, "", "", token, TRUE)
                  /\ UNCHANGED <<memoryTokens, revoked>>
  /\ UNCHANGED <<tokensIssued, serverNow, loginCall, issued>>
  /\ UNCHANGED <<device, user, distanceCalls, apiVars, clientVars, pageVars>>

\* lines 551-560: a logout request deletes the token it names
Logout(token) ==
  /\ IF token # NoToken
     THEN /\ memoryTokens' = memoryTokens \ Get(token)
          /\ revoked' = revoked \cup {token}
     ELSE UNCHANGED <<memoryTokens, revoked>>
  /\ Respond("logout", 200, "", "", token, FALSE)
  /\ UNCHANGED <<tokensIssued, serverNow, loginCall, issued>>
  /\ UNCHANGED <<device, user, distanceCalls, apiVars, clientVars, pageVars>>

\* the server's clock advances
ServerTick ==
  /\ serverNow < MaxServerTime
  /\ serverNow' = serverNow + 1
  /\ UNCHANGED <<memoryTokens, tokensIssued, loginCall, authResponse, issued, revoked>>
  /\ UNCHANGED <<device, user, distanceCalls, apiVars, clientVars, pageVars>>

\* ------------------------------------------- the admin edge function
\* (supabase/functions/admin/index.ts, lines 1-380)

MAX_ADMIN_REQUESTS == 10
\* 60 * 1000 ms on the scale of the function's clock (30 seconds a tick)
RATE_LIMIT_WINDOW == 2

\* x-forwarded-for || x-real-ip || "unknown"
ClientIPs == {"10.0.0.1", "unknown"}

ROLE_PERMISSIONS_AdminDeletes ==
  [super_admin |-> {"delete_users"}, admin |-> {"delete_users"}, moderator |-> {}]

ROLE_PERMISSIONS ==
  [super_admin |->
     {"read_users", "create_users", "update_users", "delete_users",
      "read_groups", "create_groups", "update_groups", "delete_groups",
      "read_subjects", "create_subjects", "update_subjects", "delete_subjects",
      "read_reports", "manage_attendance", "system_settings"},
   admin |->
     {"read_users", "create_users", "update_users",
      "read_groups", "create_groups", "update_groups",
      "read_subjects", "create_subjects", "update_subjects",
      "read_reports", "manage_attendance"},
   moderator |->
     {"read_users", "update_users", "read_groups", "read_subjects",
      "read_reports", "manage_attendance"}]

ACTION_PERMISSIONS ==
  ("create-user" :> "create_users") @@ ("delete-user" :> "delete_users") @@
  ("update-user" :> "update_users") @@ ("read-users" :> "read_users") @@
  ("create-group" :> "create_groups") @@ ("delete-group" :> "delete_groups") @@
  ("update-group" :> "update_groups") @@ ("read-groups" :> "read_groups") @@
  ("create-subject" :> "create_subjects") @@ ("delete-subject" :> "delete_subjects") @@
  ("update-subject" :> "update_subjects") @@ ("read-subjects" :> "read_subjects") @@
  ("read-reports" :> "read_reports") @@ ("manage-attendance" :> "manage_attendance") @@
  ("system-settings" :> "system_settings")

\* the Map has no entry for the address
NoLimit == [count |-> 0, resetTime |-> -1]

checkRateLimit_Eleven(ip) ==
  LET limit == adminRateLimit[ip]
  IN IF limit = NoLimit \/ adminNow > limit.resetTime
     THEN [ok |-> TRUE,
           map |-> [adminRateLimit EXCEPT
                      ![ip] = [count |-> 1, resetTime |-> adminNow + RATE_LIMIT_WINDOW]]]
     ELSE IF limit.count > MAX_ADMIN_REQUESTS
     THEN [ok |-> FALSE, map |-> adminRateLimit]
     ELSE [ok |-> TRUE, map |-> [adminRateLimit EXCEPT ![ip].count = @ + 1]]

\* lines 131-146: the value returned and the Map the call leaves
checkRateLimit(ip) ==
  LET limit == adminRateLimit[ip]
  IN IF limit = NoLimit \/ adminNow > limit.resetTime
     THEN [ok |-> TRUE,
           map |-> [adminRateLimit EXCEPT
                      ![ip] = [count |-> 1, resetTime |-> adminNow + RATE_LIMIT_WINDOW]]]
     ELSE IF limit.count >= MAX_ADMIN_REQUESTS
     THEN [ok |-> FALSE, map |-> adminRateLimit]
     ELSE [ok |-> TRUE, map |-> [adminRateLimit EXCEPT ![ip].count = @ + 1]]

hasPermission_Any(userRole, action) == TRUE

\* lines 149-158
hasPermission(userRole, action) ==
  LET userPermissions ==
        IF userRole \in DOMAIN ROLE_PERMISSIONS THEN ROLE_PERMISSIONS[userRole] ELSE {}
  IN /\ action \in DOMAIN ACTION_PERMISSIONS
     /\ ACTION_PERMISSIONS[action] \in userPermissions

\* what the fetch of auth/validate brings back: the body of the response,
\* or nothing when the fetch or the parse throws
ValidateResults ==
  {[outcome |-> "ok", valid |-> TRUE, role |-> "admin"],
   [outcome |-> "ok", valid |-> TRUE, role |-> "teacher"],
   [outcome |-> "ok", valid |-> TRUE, role |-> "super_admin"],
   [outcome |-> "ok", valid |-> FALSE, role |-> ""],
   [outcome |-> "error", valid |-> FALSE, role |-> ""]}

\* lines 176-186: the value of `valid` validateAdminToken returns for a
\* token that is not empty
validateAdminToken(result) ==
  result.outcome = "ok" /\ result.valid /\ result.role = "admin"

\* the last path segment of the request: the four actions of the switch,
\* one the admin role may do that the switch lacks, one it may not do, and
\* one ACTION_PERMISSIONS does not know
AdminActions ==
  {"create-user", "delete-user", "update-user", "create-group",
   "read-users", "system-settings", "frobnicate"}
\* the request's headers: the token sent and one other value
AdminTokens == {NoToken, 1}
CsrfTokens == {NoToken, 1, ForgedToken}
Methods == {"POST", "GET", "OPTIONS"}

IdleAdminCall ==
  [pc |-> "idle", ip |-> "", action |-> "", token |-> NoToken, csrf |-> NoToken,
   parses |-> FALSE, role |-> "", status |-> 0, checks |-> <<>>]
NoAdminResponse == [status |-> 0, ip |-> "", action |-> "", checks |-> <<>>]

\* json(body, status): the response, with the request it answers and the
\* checks the request went through, the one that refused it last
AdminRespond(status, ip, action, checks) ==
  adminResponse' = [status |-> status, ip |-> ip, action |-> action, checks |-> checks]

\* lines 209-262, to the first request the handler sends: 204 and 405 by
\* the method, 429 by checkRateLimit, then validateAdminToken, which returns
\* at once for an empty token and fetches auth/validate otherwise.
\* SUPABASE_URL and SUPABASE_SERVICE_ROLE_KEY are set.
AdminRequest(method, ip, action, token, csrf, parses) ==
  /\ adminCall.pc = "idle"
  /\ LET limit == checkRateLimit(ip)
         call == [IdleAdminCall EXCEPT !.ip = ip, !.action = action, !.token = token,
                                       !.csrf = csrf, !.parses = parses]
     IN IF method = "OPTIONS"
        THEN /\ AdminRespond(204, ip, action, <<>>)
             /\ UNCHANGED <<adminRateLimit, admitted, adminCall>>
        ELSE IF method # "POST"
        THEN /\ AdminRespond(405, ip, action, <<"method">>)
             /\ UNCHANGED <<adminRateLimit, admitted, adminCall>>
        ELSE IF ~limit.ok
        THEN /\ AdminRespond(429, ip, action, <<"method", "rate">>)
             /\ UNCHANGED <<adminRateLimit, admitted, adminCall>>
        ELSE /\ adminRateLimit' = limit.map
             /\ admitted' = [admitted EXCEPT ![ip][adminNow] = @ + 1]
             /\ adminCall' =
                  IF token = NoToken
                  THEN [call EXCEPT !.pc = "log", !.status = 401,
                                    !.checks = <<"method", "rate", "token">>]
                  ELSE [call EXCEPT !.pc = "validate", !.checks = <<"method", "rate">>]
             /\ UNCHANGED adminResponse
  /\ UNCHANGED <<adminNow, users, groups>>
  /\ UNCHANGED <<device, user, distanceCalls, authVars, clientVars, pageVars>>

\* lines 248-342: the fetch of auth/validate is over; 401 after a log row
\* unless the token is an admin's, 403 for an x-csrf-token that is not the
\* admin token, 403 after a log row without the permission, 404 for an
\* action the switch lacks; otherwise the body is parsed and the store
\* request is sent, and a body that does not parse is answered 500 after a
\* log row
AdminValidateDone(result) ==
  /\ adminCall.pc = "validate"
  /\ LET call == adminCall
         checked(names) == call.checks \o names
     IN IF ~validateAdminToken(result)
        THEN /\ adminCall' = [call EXCEPT !.pc = "log", !.status = 401,
                                          !.checks = checked(<<"token">>)]
             /\ UNCHANGED adminResponse
        ELSE IF call.csrf # NoToken /\ call.csrf # call.token
        THEN /\ AdminRespond(403, call.ip, call.action, checked(<<"token", "csrf">>))
             /\ adminCall' = IdleAdminCall
        ELSE IF ~hasPermission(result.role, call.action)
        THEN /\ adminCall' = [call EXCEPT !.pc = "log", !.status = 403, !.role = result.role,
                                          !.checks = checked(<<"token", "csrf", "permission">>)]
             /\ UNCHANGED adminResponse
        ELSE IF call.action \notin {"create-user", "delete-user", "update-user", "create-group"}
        THEN /\ AdminRespond(404, call.ip, call.action,
                             checked(<<"token", "csrf", "permission", "action">>))
             /\ adminCall' = IdleAdminCall
        ELSE /\ adminCall' =
                  [call EXCEPT !.pc = IF call.parses THEN "store" ELSE "log",
                               !.status = IF call.parses THEN 200 ELSE 500,
                               !.role = result.role,
                               !.checks = checked(<<"token", "csrf", "permission">>)]
             /\ UNCHANGED adminResponse
  /\ UNCHANGED <<adminRateLimit, adminNow, users, groups, admitted>>
  /\ UNCHANGED <<device, user, distanceCalls, authVars, clientVars, pageVars>>

\* the request bodies: a new teacher, the teacher of AuthUsers to be
\* switched off, the same as a field of an update, a new group
NewUser ==
  [id |-> "u4", role |-> "teacher", password_hash |-> "fresh", is_active |-> TRUE]

\* lines 292-338: what the store does with the request of each action
AdminMutation(action) ==
  CASE action = "create-user" ->
         /\ users' = IF "teacher2" \in DOMAIN users THEN users
                     ELSE [l \in DOMAIN users \cup {"teacher2"} |->
                             IF l = "teacher2" THEN NewUser ELSE users[l]]
         /\ UNCHANGED groups
    [] action \in {"delete-user", "update-user"} ->
         /\ users' = [l \in DOMAIN users |->
                        IF users[l].id = "u2" THEN [users[l] EXCEPT !.is_active = FALSE]
                        ELSE users[l]]
         /\ UNCHANGED groups
    [] action = "create-group" ->
         /\ groups' = groups \cup {"group1"}
         /\ UNCHANGED users
    [] OTHER -> UNCHANGED <<users, groups>>

\* lines 295-354: the store answers; an error is part of the result and
\* the success row is logged either way
AdminStoreDone(outcome) ==
  /\ adminCall.pc = "store"
  /\ IF outcome = "ok" THEN AdminMutation(adminCall.action) ELSE UNCHANGED <<users, groups>>
  /\ adminCall' = [adminCall EXCEPT !.pc = "log", !.checks = @ \o <<"action">>]
  /\ UNCHANGED <<adminRateLimit, adminNow, adminResponse, admitted>>
  /\ UNCHANGED <<device, user, distanceCalls, authVars, clientVars, pageVars>>

\* lines 190-198 and the return after each logAdminAction: the insert into
\* admin_logs is over, whatever it did, and the response is sent. The rows
\* of admin_logs, which the function never reads, are left out.
AdminLogDone ==
  /\ adminCall.pc = "log"
  /\ AdminRespond(adminCall.status, adminCall.ip, adminCall.action, adminCall.checks)
  /\ adminCall' = IdleAdminCall
  /\ UNCHANGED <<adminRateLimit, adminNow, users, groups, admitted>>
  /\ UNCHANGED <<device, user, distanceCalls, authVars, clientVars, pageVars>>

\* Date.now() advances
AdminTick ==
  /\ adminNow < MaxAdminTime
  /\ adminNow' = adminNow + 1
  /\ UNCHANGED <<adminRateLimit, adminCall, adminResponse, users, groups, admitted>>
  /\ UNCHANGED <<device, user, distanceCalls, authVars, clientVars, pageVars>>

\* ------------------------------------------- the client library
\* (unnamed/part_000, lines 85-339)

MAX_RETRIES == 3

\* the outcomes of one fetch: a response with ok status, a 4xx and a 5xx
\* response, the abort of the TIMEOUT timer, a network error
FetchOutcomes == {"ok", "http4", "http5", "abort", "network"}

\* null
NoSession == [token |-> NoToken, expires_at |-> -1]
NoRead == [session |-> NoSession, at |-> -1]

IdleNet ==
  [pc |-> "idle", caller |-> "", token |-> NoToken, url |-> 0, retries |-> 0,
   fetches |-> 0, last |-> ""]

isSessionExpired_Never(session) == FALSE

\* lines 89-91
isSessionExpired(session) == session.expires_at < clientNow

\* lines 94-100: the value returned, which is also the session the call leaves
getCurrentSession ==
  IF currentSession # NoSession /\ isSessionExpired(currentSession)
  THEN NoSession
  ELSE currentSession

\* a caller other than the library reads the session
GetCurrentSession ==
  /\ currentSession' = getCurrentSession
  /\ lastRead' = [session |-> getCurrentSession, at |-> clientNow]
  /\ UNCHANGED <<FALLBACK_URLS, net, clientNow, invalidated>>
  /\ UNCHANGED <<device, user, distanceCalls, authVars, apiVars, pageVars>>

Request_FourRetries(caller, token) ==
  [pc |-> "fetch", caller |-> caller, token |-> token, url |-> 1,
   retries |-> MAX_RETRIES + 1, fetches |-> 1, last |-> ""]

\* lines 247-263 and 212-219: makeRequestWithFallback starts on the first
\* URL, makeRequest with retries = MAX_RETRIES sends its first fetch
Request(caller, token) ==
  [pc |-> "fetch", caller |-> caller, token |-> token, url |-> 1,
   retries |-> MAX_RETRIES, fetches |-> 1, last |-> ""]

Free(c) == net[c].pc \in {"idle", "returned", "thrown"}

\* lines 301-314: validateSession reads the session and sends its token
validateSession(c) ==
  /\ Free(c)
  /\ currentSession' = getCurrentSession
  /\ lastRead' = [session |-> getCurrentSession, at |-> clientNow]
  /\ net' = [net EXCEPT ![c] = Request("validateSession", getCurrentSession.token)]
  /\ UNCHANGED <<FALLBACK_URLS, clientNow, invalidated>>
  /\ UNCHANGED <<device, user, distanceCalls, authVars, apiVars, pageVars>>

\* lines 113-138: login with a login and a password sends them
ClientLogin(c) ==
  /\ Free(c)
  /\ net' = [net EXCEPT ![c] = Request("login", NoToken)]
  /\ UNCHANGED <<FALLBACK_URLS, currentSession, clientNow, lastRead, invalidated>>
  /\ UNCHANGED <<device, user, distanceCalls, authVars, apiVars, pageVars>>

\* lines 182-193: logout reads the session and sends its token
ClientLogout(c) ==
  /\ Free(c)
  /\ currentSession' = getCurrentSession
  /\ lastRead' = [session |-> getCurrentSession, at |-> clientNow]
  /\ net' = [net EXCEPT ![c] = Request("logout", getCurrentSession.token)]
  /\ UNCHANGED <<FALLBACK_URLS, clientNow, invalidated>>
  /\ UNCHANGED <<device, user, distanceCalls, authVars, apiVars, pageVars>>

\* the catch of each caller, lines 176-178, 194-197 and 333-338: login
\* reports the error, logout clears the session, validateSession clears it
\* and returns valid = false
Caught(c) ==
  /\ currentSession' = IF net[c].caller = "login" THEN currentSession ELSE NoSession
  /\ invalidated' = IF net[c].caller = "validateSession" THEN "yes" ELSE invalidated

\* lines 212-244 and 247-272: a fetch is over. An ok response is returned
\* to the caller: logout clears the session (line 197), login and
\* validateSession parse the response. After an abort or a 4xx response, and
\* with no retries left, makeRequest throws: makeRequestWithFallback goes
\* on to the next URL, and throws after the last. Otherwise makeRequest
\* waits RETRY_DELAY.
FetchDone(c, outcome) ==
  /\ net[c].pc = "fetch"
  /\ LET call == [net[c] EXCEPT !.last = outcome]
     IN IF outcome = "ok" /\ call.caller = "logout"
        THEN /\ net' = [net EXCEPT ![c] = [call EXCEPT !.pc = "returned"]]
             /\ currentSession' = NoSession
             /\ UNCHANGED invalidated
        ELSE IF outcome = "ok"
        THEN /\ net' = [net EXCEPT ![c] = [call EXCEPT !.pc = "json"]]
             /\ UNCHANGED <<currentSession, invalidated>>
        ELSE IF call.retries > 0 /\ outcome \notin {"abort", "http4"}
        THEN /\ net' = [net EXCEPT ![c] = [call EXCEPT !.pc = "delay"]]
             /\ UNCHANGED <<currentSession, invalidated>>
        ELSE IF call.url < Len(FALLBACK_URLS)
        THEN /\ net' = [net EXCEPT ![c] = [call EXCEPT !.url = @ + 1,
                                                       !.retries = MAX_RETRIES,
                                                       !.fetches = 1]]
             /\ UNCHANGED <<currentSession, invalidated>>
        ELSE /\ net' = [net EXCEPT ![c] = [call EXCEPT !.pc = "thrown"]]
             /\ Caught(c)
  /\ UNCHANGED <<FALLBACK_URLS, clientNow, lastRead>>
  /\ UNCHANGED <<device, user, distanceCalls, authVars, apiVars, pageVars>>

\* lines 239-240: RETRY_DELAY is over, makeRequest calls itself with one
\* retry less
RetryDelayDone(c) ==
  /\ net[c].pc = "delay"
  /\ net' = [net EXCEPT ![c] = [@ EXCEPT !.pc = "fetch", !.retries = @ - 1,
                                         !.fetches = @ + 1]]
  /\ UNCHANGED <<FALLBACK_URLS, currentSession, clientNow, lastRead, invalidated>>
  /\ UNCHANGED <<device, user, distanceCalls, authVars, apiVars, pageVars>>

\* the bodies the auth function answers with: for validate, valid with an
\* expiry time or not valid, and valid only for a token that is not empty
\* (line 525 of the function); for login, success with a token and an
\* expiry time or not
ExpiryTimes == 1..MaxClientTime
Bodies(call) ==
  {[ok |-> FALSE, token |-> NoToken, expires_at |-> -1]}
  \cup IF call.caller = "login"
       THEN [ok : {TRUE}, token : 1..MaxLogins, expires_at : ExpiryTimes]
       ELSE IF call.caller = "validateSession" /\ call.token # NoToken
       THEN [ok : {TRUE}, token : {call.token}, expires_at : ExpiryTimes]
       ELSE {}

\* lines 140-175 and 316-332: the body of the response is parsed. login
\* saves the session it is given (the browser is an allowed one),
\* validateSession clears the session and returns
\* valid = false, or saves the session under the token it sent and returns
\* valid = true. A body that does not parse is caught.
ResponseParsed(c, body, parses) ==
  /\ net[c].pc = "json"
  /\ body \in Bodies(net[c])
  /\ net' = [net EXCEPT ![c].pc = "returned"]
  /\ IF ~parses
     THEN Caught(c)
     ELSE CASE net[c].caller = "login" ->
                 /\ currentSession' =
                      IF body.ok
                      THEN [token |-> body.token, expires_at |-> body.expires_at]
                      ELSE currentSession
                 /\ invalidated' = IF body.ok THEN "no" ELSE invalidated
            [] OTHER ->
                 /\ currentSession' =
                      IF body.ok
                      THEN [token |-> net[c].token, expires_at |-> body.expires_at]
                      ELSE NoSession
                 /\ invalidated' =
                      IF ~body.ok THEN "yes"
                      ELSE IF invalidated = "yes" THEN "revalidated"
                      ELSE invalidated
  /\ UNCHANGED <<FALLBACK_URLS, clientNow, lastRead>>
  /\ UNCHANGED <<device, user, distanceCalls, authVars, apiVars, pageVars>>

\* the browser's clock advances
ClientTick ==
  /\ clientNow < MaxClientTime
  /\ clientNow' = clientNow + 1
  /\ UNCHANGED <<FALLBACK_URLS, net, currentSession, lastRead, invalidated>>
  /\ UNCHANGED <<device, user, distanceCalls, authVars, apiVars, pageVars>>

\* ------------------------------------------------------- initial states
InitTabs ==
  /\ req = [t \in Tabs |-> IdleReq]
  /\ calls = [t \in Tabs |-> 0]
  /\ detect = [t \in Tabs |-> IdleDetect]
  /\ verdict = [t \in Tabs |-> NoVerdict]
  /\ pc = [t \in Tabs |-> "idle"]
  /\ frame = [t \in Tabs |-> IdleFrame]
  /\ isChecking = [t \in Tabs |-> FALSE]
  /\ checkResult = [t \in Tabs |-> NoResult]
  /\ attempts = 0

\* both lessons switched on by their teachers, the PIN of L1 expiring first;
\* generatePIN() may have drawn the same PIN twice
InitStore ==
  /\ \E p \in Pins :
       lessons = [L1 |-> [pin_code |-> "111111", is_active |-> TRUE, pin_expires_at |-> 0],
                  L2 |-> [pin_code |-> p, is_active |-> TRUE, pin_expires_at |-> 1]]
  /\ attendance = <<>>
  /\ activity_logs = <<>>
  /\ now = 0

\* the admin page after its first fetchLessons
InitAdmin ==
  /\ adminLessons = [l \in Lessons |-> [listed |-> TRUE, is_active |-> TRUE]]
  /\ toggling = NoToggle
  /\ fetching = 0
  /\ toggles = 0

\* no call of calculateDistance yet
InitDistance == distanceCalls = <<>>

\* the auth function just started
InitAuth ==
  /\ memoryTokens = {}
  /\ tokensIssued = 0
  /\ serverNow = 0
  /\ loginCall = IdleLogin
  /\ authResponse = NoResponse
  /\ issued = {}
  /\ revoked = {}

\* the admin function just started, public.users as the migration and the
\* teachers' registration leave it
InitApi ==
  /\ adminRateLimit = [ip \in ClientIPs |-> NoLimit]
  /\ adminNow = 0
  /\ adminCall = IdleAdminCall
  /\ adminResponse = NoAdminResponse
  /\ users = AuthUsers
  /\ groups = {}
  /\ admitted = [ip \in ClientIPs |-> [t \in 0..MaxAdminTime |-> 0]]

\* the client library just loaded
InitLibrary ==
  /\ net = [c \in Calls |-> IdleNet]
  /\ currentSession = NoSession
  /\ clientNow = 0
  /\ lastRead = NoRead
  /\ invalidated = "no"

\* lines 206-209, VITE_SUPABASE_URL set
InitClient ==
  /\ FALLBACK_URLS = <<"env", "fixed">>
  /\ InitLibrary

Init ==
  /\ device \in Devices
  /\ user \in Users
  /\ InitTabs
  /\ InitStore
  /\ InitAdmin
  /\ InitDistance
  /\ InitAuth
  /\ InitApi
  /\ InitClient

\* --------------------------------------------- the classifier on its own
\* the arguments detectSuspiciousGPS is called with
RadiusValues == {Undefined, 0, 200, 250}
PinValidityValues == {Undefined, 0, 30, 60}
\* a value outside the FakeDetectionLevel type, which the type and the cast of
\* Checkin.tsx line 95 do not rule out at run time
UnknownLevel == "bogus"
LevelInputs == Levels \cup {UnknownLevel}

InitGPS ==
  /\ device \in Devices
  /\ user = [id |-> "s1", role |-> "student"]
  /\ InitTabs
  /\ lessons = [L1 |-> [pin_code |-> "111111", is_active |-> TRUE, pin_expires_at |-> 0],
                L2 |-> [pin_code |-> "222222", is_active |-> TRUE, pin_expires_at |-> 1]]
  /\ attendance = <<>>
  /\ activity_logs = <<>>
  /\ now = 0
  /\ InitAdmin
  /\ InitDistance
  /\ InitAuth
  /\ InitApi
  /\ InitClient

NextGPS ==
  \/ \E level \in LevelInputs, teacherRadius \in RadiusValues,
        pinValiditySeconds \in PinValidityValues, userRole \in Roles :
       CallDetect(1, level, teacherRadius, pinValiditySeconds, userRole)
  \/ \E s \in DetectSlots, r \in Readings : PositionSuccess(1, s, r)
  \/ \E s \in DetectSlots, code \in ErrorCodes : PositionError(1, s, code)

SpecGPS == InitGPS /\ [][NextGPS]_vars


\* ------------------------------------------------------ the whole system
PinInputs == Pins \cup {"12345"}
Outcomes == {"ok", "error"}

\* the steps of the check-in page in the tabs T, the platform delivering
\* the readings RS and the error codes CS
Checkin(T, RS, CS) ==
  \/ \E t \in T, pinCode \in PinInputs, skipGPS \in BOOLEAN : HandleCheckin(t, pinCode, skipGPS)
  \/ \E t \in T, outcome \in Outcomes : LookupDone(t, outcome)
  \/ \E t \in T, s \in Slots, r \in RS : PositionSuccess(t, s, r)
  \/ \E t \in T, s \in Slots, code \in CS : PositionError(t, s, code)
  \/ \E t \in T, outcome \in Outcomes : FingerprintDone(t, outcome)
  \/ \E t \in T, outcome \in Outcomes : SelectDone(t, outcome)
  \/ \E t \in T, outcome \in Outcomes : WriteDone(t, outcome)
  \/ \E t \in T, outcome \in Outcomes : LogDone(t, outcome)

\* the steps of the admin page and of the clock
Admin ==
  \/ \E l \in Lessons : ToggleLessonStatus(l)
  \/ \E outcome \in Outcomes : ToggleDone(outcome)
  \/ FetchLessonsDone
  \/ Tick

\* one tab, every platform result, the lessons as they are
Next ==
  \/ \E pinCode \in PinInputs, skipGPS \in BOOLEAN :
       attempts < MaxSoloAttempts /\ HandleCheckin(1, pinCode, skipGPS)
  \/ \E outcome \in Outcomes : LookupDone(1, outcome)
  \/ \E s \in Slots, r \in Readings : PositionSuccess(1, s, r)
  \/ \E s \in Slots, code \in ErrorCodes : PositionError(1, s, code)
  \/ \E outcome \in Outcomes : FingerprintDone(1, outcome)
  \/ \E outcome \in Outcomes : SelectDone(1, outcome)
  \/ \E outcome \in Outcomes : WriteDone(1, outcome)
  \/ \E outcome \in Outcomes : LogDone(1, outcome)

Spec == Init /\ [][Next]_vars

\* the calls handleCheckin awaits, each of which completes: the store
\* answers, the platform delivers a position or an error, the digest of
\* getFingerprint settles
Completions ==
  \/ \E outcome \in Outcomes : LookupDone(1, outcome)
  \/ \E s \in Slots, r \in Readings : PositionSuccess(1, s, r)
  \/ \E s \in Slots, code \in ErrorCodes : PositionError(1, s, code)
  \/ \E outcome \in Outcomes : FingerprintDone(1, outcome)
  \/ \E outcome \in Outcomes : SelectDone(1, outcome)
  \/ \E outcome \in Outcomes : WriteDone(1, outcome)
  \/ \E outcome \in Outcomes : LogDone(1, outcome)

SpecLive == Init /\ [][Next]_vars /\ WF_vars(Completions)

\* the platform of the specifications below: plausible readings near the
\* lesson and far from it, and every error
PlainReadings == {r \in Readings : r.accuracy = 500 /\ r.longitude = 0}

\* one tab and the admin at work, time passing
NextAdmin ==
  \/ Checkin({1}, PlainReadings, ErrorCodes)
  \/ Admin

InitAdminSpec ==
  /\ device = [userAgent |-> PhoneUA, geolocation |-> TRUE]
  /\ user = [id |-> "s1", role |-> "student"]
  /\ InitTabs
  /\ InitStore
  /\ InitAdmin
  /\ InitDistance
  /\ InitAuth
  /\ InitApi
  /\ InitClient

SpecAdmin == InitAdminSpec /\ [][NextAdmin]_vars

\* the admin page on its own
SpecToggle == InitAdminSpec /\ [][Admin]_vars

\* the tabs of one student side by side
NextRace == Checkin(Tabs, PlainReadings, ErrorCodes)

SpecRace == InitAdminSpec /\ [][NextRace]_vars


\* one tab of a student's phone with every request to the store succeeding
NextOk ==
  \/ \E pinCode \in PinInputs, skipGPS \in BOOLEAN : HandleCheckin(1, pinCode, skipGPS)
  \/ LookupDone(1, "ok")
  \/ \E s \in Slots, r \in PlainReadings : PositionSuccess(1, s, r)
  \/ \E s \in Slots, code \in ErrorCodes : PositionError(1, s, code)
  \/ FingerprintDone(1, "ok")
  \/ SelectDone(1, "ok")
  \/ WriteDone(1, "ok")
  \/ LogDone(1, "ok")

SpecOk == InitAdminSpec /\ [][NextOk]_vars

\* readings around the boundary of lesson L2 (radius 282 m): the last grid
\* point inside, the grid point at 282.000 m, the first one outside
FenceReadings ==
  { [latitude |-> 25361, longitude |-> 0, accuracy |-> 500],
    [latitude |-> 25362, longitude |-> 0, accuracy |-> 500],
    [latitude |-> 25363, longitude |-> 0, accuracy |-> 500] }

\* a student on a phone at the boundary of the geofence, the store answering
NextFence ==
  \/ \E pinCode \in PinInputs, skipGPS \in BOOLEAN :
       attempts < MaxSoloAttempts /\ HandleCheckin(1, pinCode, skipGPS)
  \/ LookupDone(1, "ok")
  \/ \E s \in Slots, r \in FenceReadings : PositionSuccess(1, s, r)
  \/ \E s \in Slots, code \in ErrorCodes : PositionError(1, s, code)
  \/ FingerprintDone(1, "ok")
  \/ SelectDone(1, "ok")
  \/ WriteDone(1, "ok")
  \/ LogDone(1, "ok")

SpecFence == InitAdminSpec /\ [][NextFence]_vars

\* two classifications of one student on one device side by side, the first
\* with any settings and the second with the defaults
PairReadings ==
  { [latitude |-> 7195, longitude |-> 0, accuracy |-> 500],
    [latitude |-> 7195, longitude |-> 0, accuracy |-> 200],
    [latitude |-> 7195, longitude |-> 0, accuracy |-> 0] }

NextPair ==
  \/ \E level \in LevelInputs, teacherRadius \in {0, 250},
        pinValiditySeconds \in {30, 60} :
       /\ detect[1].pc = "off"
       /\ CallDetect(1, level, teacherRadius, pinValiditySeconds, "student")
  \/ /\ detect[2].pc = "off"
     /\ CallDetect(2, "medium", Undefined, Undefined, "student")
  \/ \E t \in {1, 2}, s \in DetectSlots, r \in PairReadings : PositionSuccess(t, s, r)
  \/ \E t \in {1, 2}, s \in DetectSlots, code \in ErrorCodes : PositionError(t, s, code)

SpecPair == InitGPS /\ [][NextPair]_vars

\* the auth function on its own: the tokens a client can present are the
\* ones returned so far, a forged one and none
NextAuth ==
  \/ \E login \in LoginInputs, password \in PasswordInputs : Login(login, password)
  \/ \E outcome \in {"ok", "error"} : LoginLookupDone(outcome)
  \/ \E token \in (1..tokensIssued) \cup {ForgedToken, NoToken} : Validate(token)
  \/ \E token \in (1..tokensIssued) \cup {ForgedToken, NoToken} : Logout(token)
  \/ ServerTick

\* the pages at rest
InitAtRest == InitAdminSpec /\ lessons["L2"].pin_code = "222222"

SpecAuth == InitAtRest /\ [][NextAuth]_vars

\* calculateDistance on its own: the north pole, the equator and 8 degrees
\* north and south, on the meridian and on the antimeridian
Latitudes == {-8, 0, 8, 90}
Longitudes == {0, 180}

NextDistance ==
  \E lat1 \in Latitudes, lon1 \in Longitudes, lat2 \in Latitudes, lon2 \in Longitudes :
    CalculateDistance(lat1, lon1, lat2, lon2)

SpecDistance == InitAtRest /\ [][NextDistance]_vars

\* the admin function on its own, one client address, the clock at rest
NextApi ==
  \/ \E method \in Methods, action \in AdminActions, token \in AdminTokens,
        csrf \in CsrfTokens, parses \in BOOLEAN :
       AdminRequest(method, "10.0.0.1", action, token, csrf, parses)
  \/ \E result \in ValidateResults : AdminValidateDone(result)
  \/ \E outcome \in {"ok", "error"} : AdminStoreDone(outcome)
  \/ AdminLogDone

SpecApi == InitAtRest /\ [][NextApi]_vars

\* the rate limit on its own: requests without a token, time passing; the
\* requests without an address header all come in the first 30 seconds
NextRate ==
  \/ \E ip \in IF adminNow = 0 THEN ClientIPs ELSE {"10.0.0.1"} :
       AdminRequest("POST", ip, "read-users", NoToken, NoToken, TRUE)
  \/ AdminLogDone
  \/ AdminTick

SpecRate == InitAtRest /\ [][NextRate]_vars

\* one call of the client library at a time, every outcome of a fetch,
\* with and without VITE_SUPABASE_URL
NetStep ==
  \/ \E outcome \in FetchOutcomes : FetchDone(1, outcome)
  \/ RetryDelayDone(1)
  \/ \E body \in Bodies(net[1]), parses \in BOOLEAN : ResponseParsed(1, body, parses)

NextNet ==
  \/ validateSession(1)
  \/ ClientLogin(1)
  \/ ClientLogout(1)
  \/ NetStep

InitNet ==
  /\ device = [userAgent |-> PhoneUA, geolocation |-> TRUE]
  /\ user = [id |-> "s1", role |-> "student"]
  /\ InitTabs
  /\ InitStore
  /\ lessons["L2"].pin_code = "222222"
  /\ InitAdmin
  /\ InitDistance
  /\ InitAuth
  /\ InitApi
  /\ FALLBACK_URLS \in {<<"fixed">>, <<"env", "fixed">>}
  /\ InitLibrary

\* a fetch settles or is aborted by the TIMEOUT timer, the RETRY_DELAY
\* timer fires, response.json() settles
SpecNet == InitNet /\ [][NextNet]_vars /\ WF_vars(NetStep)

\* two calls of the client library side by side, the fetches answered or
\* refused, time passing
NextSession ==
  \/ \E c \in Calls : validateSession(c)
  \/ \E c \in Calls : ClientLogin(c)
  \/ \E c \in Calls, outcome \in {"ok", "http4"} : FetchDone(c, outcome)
  \/ \E c \in Calls : \E body \in Bodies(net[c]) : ResponseParsed(c, body, TRUE)
  \/ GetCurrentSession
  \/ ClientTick

SpecSession == InitAtRest /\ [][NextSession]_vars


\* ================================================================ claims
Range(seq) == {seq[i] : i \in 1..Len(seq)}

\* a classification of a student that has returned
ReturnedStudent(t) == verdict[t].returned /\ detect[t].userRole = "student"

\* C1: skipGPS takes effect only for a lesson with allow_skip_gps: an attempt
\* with skipGPS = true against a lesson that does not allow it has called
\* getCurrentLocation before it reaches the fingerprint, and no attendance
\* row of such a lesson carries the reason "GPS check skipped".
C1_SkipOnlyWhenAllowed ==
  /\ \A t \in Tabs :
       (/\ pc[t] \in {"fingerprint", "select", "write", "log"}
        /\ frame[t].skipGPS
        /\ ~LessonConfig[frame[t].lesson].allow_skip_gps)
       => (calls[t] > 0 /\ M_SKIPPED \notin Range(frame[t].suspiciousCheck.reasons))
  /\ \A i \in 1..Len(attendance) :
       attendance[i].suspicious_reason = M_SKIPPED
       => LessonConfig[attendance[i].lesson_id].allow_skip_gps

\* C2: the attendance store holds at most one record for a (lesson, student)
\* pair, whatever attempts were made and however they overlapped.
C2_OneRecordPerPair ==
  \A l \in Lessons : Cardinality(Rows(l, "s1")) <= 1

\* C3: when the gate of detectSuspiciousGPS found fewer than 2 reasons for a
\* student, the call returns isSuspicious = false and an empty reasons list.
C3_GateDiscardsReasons ==
  \A t \in Tabs :
    (ReturnedStudent(t) /\ detect[t].gate >= 0 /\ detect[t].gate < 2)
    => (verdict[t].isSuspicious = FALSE /\ verdict[t].reasons = <<>>)

\* C4: a student whose only anomaly is a first reading of accuracy exactly 0
\* (no emulator marker, the two further readings at least 1e-7 degree apart)
\* gets isSuspicious = false with empty reasons.
C4_ZeroAccuracyAlone ==
  \A t \in Tabs :
    (/\ ReturnedStudent(t)
     /\ device.userAgent \cap {"sdk", "emulator", "simulator"} = {}
     /\ detect[t].location.accuracy = 0
     /\ detect[t].readings[1] # NoReading /\ detect[t].readings[2] # NoReading
     /\ \/ Abs(detect[t].readings[1].latitude - detect[t].readings[2].latitude) >= 1
        \/ Abs(detect[t].readings[1].longitude - detect[t].readings[2].longitude) >= 1)
    => (verdict[t].isSuspicious = FALSE /\ verdict[t].reasons = <<>>)

\* C5: whenever a location acquisition inside detectSuspiciousGPS failed (the
\* call of a student returned without both readings of Promise.all), the
\* verdict has isSuspicious = false and carries the GPS-check-error reason.
C5_FailOpen ==
  \A t \in Tabs :
    (/\ ReturnedStudent(t)
     /\ (detect[t].readings[1] = NoReading \/ detect[t].readings[2] = NoReading))
    => (verdict[t].isSuspicious = FALSE /\ R_ERROR \in Range(verdict[t].reasons))

\* C6: for userRole teacher or admin, detectSuspiciousGPS has returned
\* {isSuspicious: false, reasons: []} for every level, radius and PIN
\* validity, with no getCurrentLocation call made and no request in flight.
C6_TeacherAdminExempt ==
  \A t \in Tabs :
    detect[t].userRole \in {"teacher", "admin"}
    => /\ detect[t].pc = "returned"
       /\ verdict[t] = [returned |-> TRUE, isSuspicious |-> FALSE, reasons |-> <<>>]
       /\ calls[t] = 0
       /\ InFlight(t) = {}

C6_Witness ==
  /\ detect[1].userRole = "admin"
  /\ detect[1].level = "maximal"
  /\ detect[1].teacherRadius = 250
  /\ detect[1].pinValiditySeconds = 30
  /\ verdict[1].returned

\* C7: when the attendance write did not succeed, the attempt does not end
\* with a successful "present" result.
C7_NoPresentWithoutWrite ==
  [][\A t \in Tabs :
       (pc[t] = "log" /\ pc'[t] = "idle" /\ frame[t].writeError)
       => ~(checkResult'[t].success /\ checkResult'[t].status = "present")]_vars

\* C8: the three readings of one classification are acquired one after
\* another: never two requests of detectSuspiciousGPS in flight at once.
C8_SequentialReadings ==
  \A t \in Tabs : Cardinality(InFlight(t) \cap DetectSlots) <= 1

\* C9: a check-in whose PIN matches no lesson that is active with
\* pin_expires_at not before the call ends, when the lookup returns, rejected
\* with the invalid-or-expired-PIN message, with no location acquired and
\* neither an attendance record nor an activity log entry written.
C9_NoMatchRejected ==
  [][\A t \in Tabs :
       (/\ pc[t] = "lookup" /\ pc'[t] # "lookup"
        /\ ~\E l \in Lessons : /\ lessons[l].pin_code = frame[t].pinCode
                               /\ lessons[l].is_active
                               /\ lessons[l].pin_expires_at >= frame[t].callTime)
       => /\ pc'[t] = "idle"
          /\ isChecking'[t] = FALSE
          /\ checkResult'[t] = [success |-> FALSE, message |-> M_INVALID_PIN, status |-> NULL]
          /\ calls'[t] = 0
          /\ req'[t] = IdleReq
          /\ attendance' = attendance
          /\ activity_logs' = activity_logs]_vars

\* the PIN of a lesson that was switched off has been rejected
C9_Witness ==
  /\ checkResult[1] = [success |-> FALSE, message |-> M_INVALID_PIN, status |-> NULL]
  /\ \A l \in Lessons : ~lessons[l].is_active
  /\ calls[1] = 0
  /\ attendance = <<>>
  /\ activity_logs = <<>>

\* C10: while a lesson is switched off, no check-in writes or updates an
\* attendance record for it.
C10_NoWriteWhileOff ==
  [][\A t \in Tabs :
       (pc[t] = "write" /\ pc'[t] = "log" /\ attendance' # attendance)
       => lessons[frame[t].lesson].is_active]_vars

\* the steps of an attempt from the fingerprint on
Deciding == {"fingerprint", "select", "write", "log"}
Decided == {"select", "write", "log"}

\* C11: a non-skipped check-in that resolved a lesson and acquired a location
\* has its status by first match: classifier suspicious gives suspicious with
\* the classifier's reasons; otherwise a distance above the radius gives
\* suspicious with a reason naming the rounded distance and the radius;
\* otherwise present with no reason.
C11_DecisionPrecedence ==
  \A t \in Tabs :
    (pc[t] \in Decided /\ ~frame[t].skipGPS)
    => LET f == frame[t]
           cfg == LessonConfig[f.lesson]
       IN /\ f.location # NoReading
          /\ f.distance = calculateDistance(f.location.latitude, f.location.longitude,
                                            cfg.latitude, cfg.longitude)
          /\ IF f.suspiciousCheck.isSuspicious
             THEN /\ f.status = "suspicious"
                  /\ f.suspiciousReason = join(f.suspiciousCheck.reasons)
             ELSE IF f.distance > cfg.radius_meters * 1000
             THEN /\ f.status = "suspicious"
                  /\ f.suspiciousReason =
                       "Darsdan " \o ToString(Round(f.distance)) \o "m uzoqda (ruxsat: "
                         \o ToString(cfg.radius_meters) \o "m)"
             ELSE /\ f.status = "present"
                  /\ f.suspiciousReason = NULL

\* 300 m from the 120 m lesson with a classifier that found nothing
C11_Witness ==
  /\ pc[1] = "log"
  /\ frame[1].lesson = "L1"
  /\ ~frame[1].skipGPS
  /\ ~frame[1].suspiciousCheck.isSuspicious
  /\ frame[1].status = "suspicious"
  /\ frame[1].suspiciousReason = "Darsdan 300m uzoqda (ruxsat: 120m)"

\* C12: with every store operation succeeding and attempts one after the
\* other, each attendance write leaves exactly one record for the (lesson,
\* student) pair, carrying the status, distance, flag and reason of the
\* attempt that wrote; a second attempt overwrites the record of the first.
C12_SecondOverwrites ==
  [][\A t \in Tabs :
       (pc[t] = "write" /\ pc'[t] = "log")
       => LET f == frame[t]
              pair == {i \in 1..Len(attendance') :
                         /\ attendance'[i].lesson_id = f.lesson
                         /\ attendance'[i].student_id = user.id}
          IN /\ Cardinality(pair) = 1
             /\ \A i \in pair :
                  /\ attendance'[i].status = f.status
                  /\ attendance'[i].distance_meters = f.distance
                  /\ attendance'[i].is_fake_gps = f.suspiciousCheck.isSuspicious
                  /\ attendance'[i].suspicious_reason = f.suspiciousReason
             /\ Len(attendance') =
                  IF Rows(f.lesson, user.id) = {} THEN Len(attendance) + 1
                  ELSE Len(attendance)]_vars

\* the second attempt has overwritten the record of the first, whose
\* activity log entry shows another status
C12_Witness ==
  /\ attempts = 2
  /\ pc[1] = "log"
  /\ attendance = <<Row(frame[1])>>
  /\ Len(activity_logs) = 1
  /\ activity_logs[1].lesson_id = frame[1].lesson
  /\ activity_logs[1].status # frame[1].status

\* C13: whether or not the activity-log insert succeeds, the result shown is
\* the status that was decided and written, never a system error.
C13_LogFailureSwallowed ==
  [][\A t \in Tabs :
       (pc[t] = "log" /\ pc'[t] = "idle")
       => /\ checkResult'[t].status = frame[t].status
          /\ checkResult'[t].success = (frame[t].status = "present")
          /\ checkResult'[t].message # M_SYSTEM_ERROR
          /\ isChecking'[t] = FALSE]_vars

\* the only attempt wrote its record, its log insert failed, and present is shown
C13_Witness ==
  /\ attempts = 1
  /\ pc[1] = "idle"
  /\ Len(attendance) = 1
  /\ activity_logs = <<>>
  /\ checkResult[1].success
  /\ checkResult[1].status = "present"

\* C14: when the attempt's own getCurrentLocation rejects, the attempt ends
\* rejected with the platform error's message (and the hint of its class) as
\* reason, and neither an attendance record nor an activity log entry is
\* written.
C14_OwnLocationFailure ==
  [][\A t \in Tabs :
       (pc[t] = "locate" /\ pc'[t] = "idle")
       => /\ \E code \in ErrorCodes, hint \in {"", H_PERMISSION, H_INTERNET} :
               checkResult'[t] =
                 [success |-> FALSE, message |-> handleGeolocationError(code) \o hint,
                  status |-> NULL]
          /\ isChecking'[t] = FALSE
          /\ attendance' = attendance
          /\ activity_logs' = activity_logs]_vars

\* the first attempt was rejected for a denied permission, nothing written
C14_Witness ==
  /\ attempts = 1
  /\ pc[1] = "idle"
  /\ checkResult[1] = [success |-> FALSE, message |-> E_PERMISSION \o H_PERMISSION,
                       status |-> NULL]
  /\ attendance = <<>>
  /\ activity_logs = <<>>

\* C15: a call of getCurrentLocation makes its low-accuracy request only on a
\* TIMEOUT of its high-accuracy request, and once; PERMISSION_DENIED and
\* POSITION_UNAVAILABLE of the high-accuracy request settle the call with no
\* second request; every error of the low-accuracy request settles the call;
\* a settled call makes no further request.
C15_FallbackOnlyOnTimeout ==
  [][\A t \in Tabs, s \in Slots :
       /\ (req'[t][s] = "low" /\ req[t][s] # "low")
            => (req[t][s] = "high" /\ PositionError(t, s, TIMEOUT))
       /\ (/\ req[t][s] = "high"
           /\ \/ PositionError(t, s, PERMISSION_DENIED)
              \/ PositionError(t, s, POSITION_UNAVAILABLE))
            => req'[t][s] = "idle"
       /\ req[t][s] = "low" => req'[t][s] \in {"low", "idle"}
       /\ (req[t][s] = "low" /\ \E code \in ErrorCodes : PositionError(t, s, code))
            => req'[t][s] = "idle"
       /\ (req[t][s] = "idle" /\ req'[t][s] # "idle")
            => (req'[t][s] = "high" /\ calls'[t] > calls[t])]_vars

\* the fallback request of the attempt's own acquisition is in flight
C15_Witness ==
  /\ pc[1] = "locate"
  /\ req[1]["own"] = "low"

\* C16: the attendance store changes only by the write of an attempt whose
\* status is decided, by one row, and an attempt writes once: after its write
\* it only logs and ends.
C16_OneWriteAfterDecision ==
  [][/\ attendance' # attendance
        => \E t \in Tabs :
             /\ pc[t] = "write" /\ pc'[t] = "log"
             /\ frame[t].status \in {"present", "suspicious"}
             /\ \/ /\ Len(attendance') = Len(attendance) + 1
                   /\ SubSeq(attendance', 1, Len(attendance)) = attendance
                \/ /\ Len(attendance') = Len(attendance)
                   /\ Cardinality({i \in 1..Len(attendance) :
                                     attendance'[i] # attendance[i]}) = 1
     /\ \A t \in Tabs :
          /\ pc[t] = "log" => pc'[t] \in {"log", "idle"}
          /\ (pc'[t] = "write" /\ pc[t] # "write") => pc[t] = "select"]_vars

\* the attempt, decided suspicious after its readings, has made its one write
C16_Witness ==
  /\ pc[1] = "log"
  /\ calls[1] > 0
  /\ frame[1].status = "suspicious"
  /\ ~frame[1].writeError
  /\ attendance = <<Row(frame[1])>>

\* C17: a check-in with skipGPS against a lesson that allows it calls
\* neither detectSuspiciousGPS nor getCurrentLocation, keeps distance 0, is
\* decided present with the reason 'GPS check skipped', writes that and shows
\* present.
C17_SkipAllowed ==
  [][\A t \in Tabs :
       (/\ pc[t] \in Deciding
        /\ frame[t].skipGPS
        /\ LessonConfig[frame[t].lesson].allow_skip_gps)
       => /\ calls[t] = 0 /\ calls'[t] = 0
          /\ req'[t] = IdleReq
          /\ detect'[t] = IdleDetect
          /\ frame[t].distance = 0
          /\ frame[t].isWithinRadius
          /\ pc[t] \in Decided
               => (frame[t].status = "present" /\ frame[t].suspiciousReason = M_SKIPPED)
          /\ (pc[t] = "write" /\ attendance' # attendance)
               => \E i \in 1..Len(attendance') :
                    /\ attendance'[i].lesson_id = frame[t].lesson
                    /\ attendance'[i].status = "present"
                    /\ attendance'[i].distance_meters = 0
                    /\ attendance'[i].suspicious_reason = M_SKIPPED
          /\ (pc[t] = "log" /\ pc'[t] = "idle")
               => (checkResult'[t].success /\ checkResult'[t].status = "present")]_vars

\* the skipped check-in of L2 is recorded and shown as present
C17_Witness ==
  /\ attempts = 1
  /\ pc[1] = "idle"
  /\ calls[1] = 0
  /\ checkResult[1].success
  /\ Len(attendance) = 1
  /\ attendance[1].lesson_id = "L2"
  /\ attendance[1].status = "present"
  /\ attendance[1].distance_meters = 0
  /\ attendance[1].suspicious_reason = M_SKIPPED

\* C18: when at least one active lesson with an unexpired PIN carries the
\* entered PIN, however many do, the lookup does not end the attempt with the
\* invalid-or-expired-PIN message.
C18_MatchingPinAccepted ==
  [][\A t \in Tabs :
       (/\ pc[t] = "lookup" /\ pc'[t] # "lookup"
        /\ \E l \in Lessons : /\ lessons[l].pin_code = frame[t].pinCode
                               /\ lessons[l].is_active
                               /\ lessons[l].pin_expires_at >= frame[t].callTime)
       => checkResult'[t].message # M_INVALID_PIN]_vars

\* C19: a student whose first reading has accuracy 0 and whose two further
\* readings differ by less than 1e-7 degree in latitude and in longitude, all
\* three acquisitions having succeeded, gets isSuspicious = true with at
\* least 2 reasons.
C19_Corroborated ==
  \A t \in Tabs :
    (/\ ReturnedStudent(t)
     /\ detect[t].location.accuracy = 0
     /\ detect[t].readings[1] # NoReading /\ detect[t].readings[2] # NoReading
     /\ Abs(detect[t].readings[1].latitude - detect[t].readings[2].latitude) < 1
     /\ Abs(detect[t].readings[1].longitude - detect[t].readings[2].longitude) < 1)
    => (verdict[t].isSuspicious = TRUE /\ Len(verdict[t].reasons) >= 2)

\* on a phone without emulator marker: the two accuracy reasons and the
\* identical-readings reason
C19_Witness ==
  /\ device.userAgent = PhoneUA
  /\ detect[1].location.accuracy = 0
  /\ detect[1].readings[1] = detect[1].readings[2]
  /\ detect[1].readings[1] # NoReading
  /\ verdict[1] = [returned |-> TRUE, isSuspicious |-> TRUE,
                   reasons |-> <<R_ZERO, R_HIGH, R_IDENTICAL>>]

\* C20: in a classification of a student, the adjusted timestamp threshold
\* is half the level's base value for every supplied pinValiditySeconds from 0
\* to 59, and the base value for 60 or more and when it is not supplied.
C20_ShortPinHalves ==
  \A t \in Tabs :
    (detect[t].userRole = "student" /\ detect[t].pc # "off")
    => LET base == getDetectionThresholds(detect[t].level).timestampThreshold
           pinValiditySeconds == detect[t].pinValiditySeconds
       IN detect[t].adjustedThresholds.timestampThreshold =
            IF /\ pinValiditySeconds # Undefined
               /\ pinValiditySeconds >= 0 /\ pinValiditySeconds < 60
            THEN base \div 2
            ELSE base

\* C21: in a classification of a student, the adjusted variance threshold is
\* 10 times the level's base value exactly when the radius is greater than
\* 200, and the base value otherwise (200 included); it does not depend on
\* pinValiditySeconds, the adjusted timestamp threshold does not depend on the
\* radius, and the two accuracy thresholds are never adjusted.
C21_LargeRadiusTenfold ==
  \A t \in Tabs :
    (detect[t].userRole = "student" /\ detect[t].pc # "off")
    => LET base == getDetectionThresholds(detect[t].level)
           adjusted == detect[t].adjustedThresholds
       IN /\ adjusted.varianceThreshold =
               IF detect[t].teacherRadius > 200
               THEN 10 * base.varianceThreshold
               ELSE base.varianceThreshold
          /\ \A r \in RadiusValues, p \in PinValidityValues :
               /\ adjustedThresholds(detect[t].level, detect[t].teacherRadius, p)
                    .varianceThreshold = adjusted.varianceThreshold
               /\ adjustedThresholds(detect[t].level, r, detect[t].pinValiditySeconds)
                    .timestampThreshold = adjusted.timestampThreshold
          /\ adjusted.accuracyThreshold = base.accuracyThreshold
          /\ adjusted.maxAccuracy = base.maxAccuracy

\* both adjustments in one resolution: radius 250 and a 30-second PIN at
\* level medium
C21_Witness ==
  /\ detect[1].userRole = "student" /\ detect[1].pc # "off"
  /\ detect[1].level = "medium"
  /\ detect[1].teacherRadius = 250 /\ detect[1].pinValiditySeconds = 30
  /\ detect[1].adjustedThresholds =
       [accuracyThreshold |-> 300, maxAccuracy |-> 1500000,
        varianceThreshold |-> 1000, timestampThreshold |-> 100]

\* C22: the thresholds getDetectionThresholds returns for minimal, medium and
\* maximal are (1.0 m, 20000 m, 1e-6 deg, 100 ms), (3.0 m, 15000 m, 1e-5 deg,
\* 200 ms) and (5.0 m, 10000 m, 1e-4 deg, 500 ms), in every call.
C22_BaseTable ==
  \A t \in Tabs :
    (detect[t].userRole = "student" /\ detect[t].pc # "off")
    => /\ detect[t].level = "minimal" =>
            detect[t].thresholds =
              [accuracyThreshold |-> 100, maxAccuracy |-> 2000000,
               varianceThreshold |-> 10, timestampThreshold |-> 100]
       /\ detect[t].level = "medium" =>
            detect[t].thresholds =
              [accuracyThreshold |-> 300, maxAccuracy |-> 1500000,
               varianceThreshold |-> 100, timestampThreshold |-> 200]
       /\ detect[t].level = "maximal" =>
            detect[t].thresholds =
              [accuracyThreshold |-> 500, maxAccuracy |-> 1000000,
               varianceThreshold |-> 1000, timestampThreshold |-> 500]

\* a resolution of level maximal that has run to its return
C22_Witness ==
  /\ ReturnedStudent(1)
  /\ detect[1].level = "maximal"
  /\ detect[1].thresholds.accuracyThreshold = 500
  /\ detect[1].thresholds.timestampThreshold = 500

\* C23: for a level other than minimal, medium and maximal,
\* getDetectionThresholds returns the thresholds it returns for medium.
C23_UnknownLevelIsMedium ==
  \A t \in Tabs :
    (detect[t].userRole = "student" /\ detect[t].pc # "off"
       /\ detect[t].level \notin Levels)
    => detect[t].thresholds = getDetectionThresholds("medium")

C23_Witness ==
  /\ detect[1].userRole = "student" /\ detect[1].pc # "off"
  /\ detect[1].level = UnknownLevel
  /\ detect[1].thresholds.varianceThreshold = 100

\* C24: the geofence boundary is inclusive.  In an attempt that used GPS, a
\* reading whose distance to the lesson equals the radius is within the
\* radius, a reading is out of range exactly when its distance is strictly
\* greater, and once the status is decided a reading the classifier did not
\* flag is suspicious for its distance exactly when the distance is greater
\* than the radius.  checkLocationWithinRadius gives the same answer.
C24_InclusiveBoundary ==
  \A t \in Tabs :
    (pc[t] \in Deciding /\ ~frame[t].skipGPS)
    => LET f == frame[t]
           cfg == LessonConfig[f.lesson]
           radius == cfg.radius_meters * 1000
       IN /\ f.distance = radius => f.isWithinRadius
          /\ ~f.isWithinRadius <=> f.distance > radius
          /\ checkLocationWithinRadius(f.location, cfg.latitude, cfg.longitude,
                                       cfg.radius_meters).isWithinRadius
               = f.isWithinRadius
          /\ (pc[t] \in Decided /\ ~f.suspiciousCheck.isSuspicious)
               => (f.status = "suspicious" <=> f.distance > radius)

\* a reading at exactly 282.000 m from lesson L2, marked present
C24_Witness ==
  /\ pc[1] \in Decided /\ ~frame[1].skipGPS
  /\ frame[1].lesson = "L2"
  /\ frame[1].distance = 282000
  /\ frame[1].isWithinRadius
  /\ ~frame[1].suspiciousCheck.isSuspicious
  /\ frame[1].status = "present"

\* two successive calls with the two points exchanged
Exchanged(first, second) ==
  /\ second.lat1 = first.lat2 /\ second.lon1 = first.lon2
  /\ second.lat2 = first.lat1 /\ second.lon2 = first.lon1

C26_NeverNaN ==
  \A i \in 1..Len(distanceCalls) :
    LET call == distanceCalls[i]
    IN /\ (call.lat1 = call.lat2 /\ call.lon1 = call.lon2) => call.result = Num(0)
       /\ call.a >= 0 /\ call.a <= ONE
       /\ ~call.result.nan
       /\ call.result.value >= 0

C28_RecordStatus ==
  /\ \A i \in 1..Len(attendance) :
       /\ attendance[i].status \in {"present", "suspicious"}
       /\ attendance[i].is_fake_gps => attendance[i].status = "suspicious"
       /\ attendance[i].suspicious_reason = M_SKIPPED
            => (~attendance[i].is_fake_gps /\ attendance[i].status = "present")
  /\ \A t \in Tabs :
       (pc[t] = "log" /\ ~frame[t].writeError /\ frame[t].skipGPS)
       => \E i \in 1..Len(attendance) :
            /\ attendance[i].lesson_id = frame[t].lesson
            /\ attendance[i].student_id = user.id
            /\ attendance[i].suspicious_reason = M_SKIPPED
            /\ ~attendance[i].is_fake_gps
            /\ attendance[i].status = "present"

\* a record flagged by the classifier, of a reading within the radius
C28_Witness ==
  /\ Len(attendance) = 1
  /\ attendance[1].is_fake_gps
  /\ attendance[1].status = "suspicious"
  /\ attendance[1].distance_meters <= 120000
  /\ pc[1] = "log" /\ ~frame[1].skipGPS

\* the password is the one stored in the row: the stored value itself, or
\* the password whose bcrypt hash the stored value is (the migration gives
\* BCRYPT_HASH as the hash of 'Husan0716')
StoredPasswordIs(row, password) ==
  \/ row.password_hash = password
  \/ row.password_hash = BCRYPT_HASH /\ password = DEMO_PASSWORD

\* C29: a login is answered with a token only when the supplied password
\* is the password stored for the active user of that login.
C29_TokenOnlyForStoredPassword ==
  (authResponse.action = "login" /\ authResponse.status = 200)
  => /\ authResponse.login \in DOMAIN AuthUsers
     /\ AuthUsers[authResponse.login].is_active
     /\ StoredPasswordIs(AuthUsers[authResponse.login], authResponse.password)

\* C30: validate answers valid: true only for a token a login issued, not
\* passed to logout since, at a time not after its expiry 12 hours after
\* issue; a token logged out or found expired is no longer in the token map
\* and is never answered valid again.
C30_ValidOnlyWhileLive ==
  /\ (authResponse.action = "validate" /\ authResponse.valid)
     => /\ \E i \in issued : /\ i.token = authResponse.token
                              /\ authResponse.at <= i.at + TWELVE_HOURS
        /\ authResponse.token \notin revoked
  /\ \A token \in revoked : Get(token) = {}

\* the second token validated at the very end of its 12 hours, the first
\* one logged out
C30_Witness ==
  /\ authResponse.action = "validate" /\ authResponse.valid
  /\ authResponse.token = 2
  /\ \E i \in issued : i.token = 2 /\ authResponse.at = i.at + TWELVE_HOURS
  /\ 1 \in revoked /\ Get(1) = {}

\* C31: users and groups change only in a step of a POST request that
\* passed, in this order, the rate limit, the validation of its token as an
\* admin's, the x-csrf-token comparison and the permission check of its
\* action; no other request changes a row of either table.
C31_MutationOnlyAfterChecks ==
  [][(users' # users \/ groups' # groups)
     => /\ adminCall.checks = <<"method", "rate", "token", "csrf", "permission">>
        /\ adminCall.token # NoToken
        /\ adminCall.role = "admin"
        /\ adminCall.csrf \in {NoToken, adminCall.token}
        /\ adminCall.action \in DOMAIN ACTION_PERMISSIONS
        /\ ACTION_PERMISSIONS[adminCall.action] \in ROLE_PERMISSIONS["admin"]]_vars

C31_Witness ==
  /\ adminResponse.status = 200
  /\ adminResponse.action = "create-user"
  /\ "teacher2" \in DOMAIN users

\* C32: no request reaches the store with the delete-user action, every
\* delete-user request is answered 403 or refused earlier (204, 405, 429,
\* 401), and no step of a delete-user request changes public.users.
C32_NeverDeletes ==
  /\ [](adminCall.pc = "store" => adminCall.action # "delete-user")
  /\ [](adminResponse.action = "delete-user"
        => adminResponse.status \in {204, 405, 429, 401, 403})
  /\ [][adminCall.action = "delete-user" => users' = users]_vars

C32_Witness ==
  /\ adminResponse.action = "delete-user"
  /\ adminResponse.status = 403
  /\ adminResponse.checks = <<"method", "rate", "token", "csrf", "permission">>

\* the requests of an address admitted at the times from..to
RECURSIVE AdmittedIn(_, _, _)
AdmittedIn(ip, from, to) ==
  IF from > to THEN 0
  ELSE (IF to \in 0..MaxAdminTime THEN admitted[ip][to] ELSE 0) + AdmittedIn(ip, from, to - 1)

C34_RetriesBoundedAndEnd ==
  /\ [](\A c \in Calls :
          /\ net[c].fetches <= 1 + MAX_RETRIES
          /\ net[c].pc \in {"json", "returned"} => net[c].last = "ok"
          /\ net[c].pc = "thrown"
             => net[c].url = Len(FALLBACK_URLS) /\ net[c].last \in FetchOutcomes \ {"ok"})
  /\ [][\A c \in Calls :
          net[c].pc = "fetch" /\ net'[c] # net[c] /\ net'[c].last \in {"abort", "http4"}
          => \/ net'[c].pc = "thrown"
             \/ net'[c].url = net[c].url + 1 /\ net'[c].fetches = 1]_vars
  /\ \A c \in Calls :
       (net[c].pc \in {"fetch", "delay", "json"}) ~> (net[c].pc \in {"returned", "thrown"})

C34_Witness ==
  /\ net[1].pc = "thrown"
  /\ net[1].url = 2
  /\ net[1].fetches = 1 + MAX_RETRIES

\* C35 (original statement): getCurrentSession returns no expired session,
\* and from a return of validateSession with valid = false to the next
\* successful login it returns null.
C35_NullUntilLogin ==
  /\ lastRead.session # NoSession => ~(lastRead.session.expires_at < lastRead.at)
  /\ invalidated \in {"yes", "revalidated"} => getCurrentSession = NoSession

\* C35: getCurrentSession returns no expired session, and from a return of
\* validateSession with valid = false it returns null until the next
\* successful login or the next return of validateSession with valid = true.
C35_NullUntilSaved ==
  /\ lastRead.session # NoSession => ~(lastRead.session.expires_at < lastRead.at)
  /\ invalidated = "yes" => getCurrentSession = NoSession

C35_Witness ==
  /\ invalidated = "yes"
  /\ lastRead.session = NoSession
  /\ \E c \in Calls :
       /\ net[c].caller = "validateSession"
       /\ net[c].pc \in {"returned", "thrown"}
       /\ net[c].token # NoToken

\* C36: a handleCheckin call starts only with a user and a PIN of 6
\* characters, and without a user nothing on the page or in the store ever
\* changes; a call that ends leaves isChecking = false and a check result
\* that is not null; and, its awaited calls completing, every call ends.
C36_EveryCallEnds ==
  /\ [](/\ pc[1] # "idle" => user # NoUser /\ Len(frame[1].pinCode) = 6
        /\ user = NoUser => /\ attempts = 0 /\ ~isChecking[1] /\ checkResult[1] = NoResult
                            /\ attendance = <<>> /\ activity_logs = <<>>)
  /\ [][(attempts' # attempts \/ pc[1] # "idle") /\ pc'[1] = "idle"
        => ~isChecking'[1] /\ checkResult'[1] # NoResult]_vars
  /\ (pc[1] # "idle") ~> (pc[1] = "idle" /\ ~isChecking[1] /\ checkResult[1] # NoResult)

C36_Witness ==
  /\ attempts = 1
  /\ pc[1] = "idle"
  /\ ~isChecking[1]
  /\ checkResult[1] = Rejected(M_SYSTEM_ERROR)

\* C37: a toggleLessonStatus call takes the status the list shows and the
\* time of the click; when its update is over, either the store reported
\* an error and neither the store nor the local list changed, or the lesson
\* has is_active equal to the negation of that status, in the store and in
\* the list, pin_expires_at one hour after the click if the lesson was
\* switched on and as before if it was switched off, its PIN as before, and
\* every other lesson as before.
C37_ToggleFrame ==
  [][/\ toggling = NoToggle /\ toggling' # NoToggle
        => /\ toggling'.currentStatus = adminLessons[toggling'.lessonId].is_active
           /\ toggling'.clickTime = now
           /\ lessons' = lessons /\ adminLessons' = adminLessons
     /\ toggling # NoToggle /\ toggling' = NoToggle
        => LET l == toggling.lessonId
               currentStatus == toggling.currentStatus
           IN IF fetching' = fetching
              THEN lessons' = lessons /\ adminLessons' = adminLessons
              ELSE /\ lessons'[l].is_active = ~currentStatus
                   /\ lessons'[l].pin_expires_at =
                        IF currentStatus THEN lessons[l].pin_expires_at
                        ELSE toggling.clickTime + ONE_HOUR
                   /\ lessons'[l].pin_code = lessons[l].pin_code
                   /\ adminLessons'[l].is_active = ~currentStatus
                   /\ adminLessons'[l].listed = adminLessons[l].listed
                   /\ \A other \in Lessons \ {l} :
                        /\ lessons'[other] = lessons[other]
                        /\ adminLessons'[other] = adminLessons[other]]_vars

C37_Witness ==
  /\ toggles = 2
  /\ toggling = NoToggle
  /\ lessons["L1"].is_active
  /\ adminLessons["L1"].is_active
  /\ lessons["L1"].pin_expires_at = 1 + ONE_HOUR
  /\ lessons["L2"] = [pin_code |-> "222222", is_active |-> TRUE, pin_expires_at |-> 1]

=============================================================================
